---------------------------- MODULE Spec2Model ----------------------------
(***************************************************************************)
(* A model of the mikrotik-api client: the length/word/sentence codec      *)
(* (src/src/protocol/word.rs, src/src/protocol/command.rs) and the         *)
(* connection task of MikrotikDevice::connect (src/src/device.rs).         *)
(*                                                                         *)
(* Bytes are naturals 0..255, byte strings are sequences of bytes.  Rust   *)
(* slices are 0-based; sequences here are 1-based, so data[i] of the code  *)
(* is data[i+1] of the model.                                              *)
(***************************************************************************)
EXTENDS Integers, Sequences, FiniteSets, TLC

VARIABLES
    \* ---- connect() and the task it spawns (device.rs) ----
    pc,                \* position of connect / of the spawned task
    running,           \* device.rs:85  `running`
    packet_buf,        \* device.rs:100 `packet_buf`
    packet_cap,        \* the capacity of the Vec `packet_buf`
    offset,            \* device.rs:135 `offset` of the inner parse loop
    held,              \* device.rs:168 the command recv() returned, not yet written
    queue,             \* device.rs:213 the entry the drain yielded, its send awaited
    running_commands,  \* device.rs:90  the tag table: tag -> response channel
    command_queue,     \* device.rs:88  buffer of the mpsc command channel
    next_tag,          \* device.rs:91  `tag_sequence`, later `next_tag`
    connect_result,    \* what connect() returned
    handle_alive,      \* a caller still holds a MikrotikDevice handle
    err,               \* the Error notify_error is broadcasting
    ret,               \* where the task continues after notify_error
    \* ---- the socket and the peer ----
    wire,              \* chunks the peer has sent and the client has not read
    nsent,             \* number of chunks the peer has sent
    sock_ok,           \* FALSE once writes to the socket fail
    menu,              \* the chunks the peer chooses from
    tx_log,            \* every write_all / shutdown call on tcp_tx, in order
    \* ---- the callers and their response channels ----
    ncmd,              \* number of send_command calls begun by the callers
    created,           \* calls between create_command and the first poll of send
    waiters,           \* calls waiting for room in the command queue, in order
    call_tag,          \* per call of a caller: the tag create_command gave it
    dropped_calls,     \* calls dropped by their caller while they waited
    sent,              \* per response channel: the results send() accepted
    taken,             \* per response channel: how many the receiver took
    rx_dropped,        \* per response channel: the receiver was dropped
    failed_calls,      \* channels whose send_command call panicked
    ndetached,         \* send_command calls whose stream was dropped at once
    nalloc,            \* number of fetch_add calls on the tag counter
    \* ---- observation only ----
    snap,              \* table and channels when the last drain of the table began
    serr,              \* table and channels when a sentence was first refused
    done_chans,        \* channels whose command was finished by a Done
    \* ---- pure functions of the codec, applied to drawn inputs ----
    fn_pc, fn_in, fn_out

avars == <<pc, running, packet_buf, packet_cap, offset, held, queue,
           running_commands, command_queue, next_tag, connect_result,
           handle_alive, err, ret, wire, nsent, sock_ok, menu, tx_log, ncmd,
           created, waiters, call_tag, dropped_calls, sent, taken, rx_dropped,
           failed_calls, ndetached, nalloc, snap, serr, done_chans>>
cvars == <<fn_pc, fn_in, fn_out>>
vars  == <<avars, cvars>>

(***************************************************************************)
(* u32 arithmetic of the codec.  A u32 is a pair <<hi, lo>> of 16-bit      *)
(* halves (value hi * 65536 + lo), so that every operation keeps the       *)
(* width of the code's u32 and no intermediate value leaves the range of   *)
(* the model checker's integers.                                           *)
(***************************************************************************)
RECURSIVE BitAnd(_, _)
BitAnd(a, b) ==
    IF a = 0 \/ b = 0 THEN 0
    ELSE (a % 2) * (b % 2) + 2 * BitAnd(a \div 2, b \div 2)

RECURSIVE BitOr(_, _)
BitOr(a, b) ==
    IF a = 0 THEN b
    ELSE IF b = 0 THEN a
    ELSE (IF a % 2 = 1 \/ b % 2 = 1 THEN 1 ELSE 0)
         + 2 * BitOr(a \div 2, b \div 2)

\* the u32 of a natural below 2^31 (`x as u32`)
U32Of(n) == <<(n \div 65536) % 65536, n % 65536>>
\* a byte widened (`data[i] as u32`)
U32Byte(b) == <<0, b>>
U32And(a, b) == <<BitAnd(a[1], b[1]), BitAnd(a[2], b[2])>>
U32Or(a, b)  == <<BitOr(a[1], b[1]), BitOr(a[2], b[2])>>
\* !x
U32Not(a) == <<65535 - a[1], 65535 - a[2]>>
\* x << 8: the bits shifted out of the u32 are lost
U32Shl8(a) == <<(a[1] * 256 + a[2] \div 256) % 65536, (a[2] * 256) % 65536>>
\* x >> k for the shifts the code uses
U32Shr(a, k) ==
    CASE k = 0  -> a
      [] k = 8  -> <<a[1] \div 256, (a[1] % 256) * 256 + a[2] \div 256>>
      [] k = 16 -> <<0, a[1]>>
      [] k = 24 -> <<0, a[1] \div 256>>
\* x + y, wrapping
U32Add(a, b) ==
    LET lo == a[2] + b[2]
        hi == a[1] + b[1] + lo \div 65536
    IN  <<hi % 65536, lo % 65536>>
U32Le(a, b) == a[1] < b[1] \/ (a[1] = b[1] /\ a[2] <= b[2])
\* `x as u8`
AsU8(a) == a[2] % 256
\* `(x >> k) & 0xFF) as u8`
ByteAt(a, k) == AsU8(U32And(U32Shr(a, k), <<0, 255>>))

(***************************************************************************)
(* ASCII text used by the protocol.                                        *)
(***************************************************************************)
B_tag_prefix == <<46, 116, 97, 103, 61>>                 \* ".tag="
B_eq         == <<61>>                                   \* "="
B_bang       == <<33>>                                   \* "!"
B_done       == <<100, 111, 110, 101>>                   \* "done"
B_re         == <<114, 101>>                             \* "re"
B_trap       == <<116, 114, 97, 112>>                    \* "trap"
B_fatal      == <<102, 97, 116, 97, 108>>                \* "fatal"
B_category   == <<99, 97, 116, 101, 103, 111, 114, 121>> \* "category"
B_message    == <<109, 101, 115, 115, 97, 103, 101>>     \* "message"
B_login      == <<47, 108, 111, 103, 105, 110>>          \* "/login"
B_cancel     == <<47, 99, 97, 110, 99, 101, 108>>        \* "/cancel"
B_name       == <<110, 97, 109, 101>>                    \* "name"
B_password   == <<112, 97, 115, 115, 119, 111, 114, 100>> \* "password"
B_tag_eq     == <<116, 97, 103, 61>>                     \* "tag="
B_ether1     == <<101, 116, 104, 101, 114, 49>>          \* "ether1"

\* slice.strip_prefix(p): TRUE when data starts with p
StartsWith(data, p) ==
    Len(data) >= Len(p) /\ SubSeq(data, 1, Len(p)) = p
\* the slice after a prefix of n bytes
Skip(data, n) == SubSeq(data, n + 1, Len(data))

(***************************************************************************)
(* Option<T>                                                               *)
(***************************************************************************)
None    == [some |-> FALSE, val |-> <<>>]
Some(v) == [some |-> TRUE, val |-> v]

\* write_len with the one-byte class reaching 0x80 and every longer
\* length written in five bytes
write_len_late(buf, len) ==
    IF U32Le(len, <<0, 128>>) THEN buf \o <<AsU8(len)>>
    ELSE buf \o <<240, ByteAt(len, 24), ByteAt(len, 16), ByteAt(len, 8),
                  ByteAt(len, 0)>>

(***************************************************************************)
(* CommandBuffer::write_len (command.rs:265-294): the buffer with the      *)
(* length prefix of the u32 `len` appended.                                *)
(***************************************************************************)
write_len(buf, len) ==
    IF U32Le(len, <<0, 127>>) THEN                        \* 0x00..=0x7F
        buf \o <<AsU8(len)>>
    ELSE IF U32Le(len, <<0, 16383>>) THEN                 \* 0x80..=0x3FFF
        LET l == U32Or(len, <<0, 32768>>) IN              \* | 0x8000
        buf \o <<ByteAt(l, 8), ByteAt(l, 0)>>
    ELSE IF U32Le(len, <<31, 65535>>) THEN                \* 0x4000..=0x1FFFFF
        LET l == U32Or(len, <<192, 0>>) IN                \* | 0xC00000
        buf \o <<ByteAt(l, 16), ByteAt(l, 8), ByteAt(l, 0)>>
    ELSE IF U32Le(len, <<4095, 65535>>) THEN              \* 0x200000..=0xFFFFFFF
        LET l == U32Or(len, <<57344, 0>>) IN              \* | 0xE0000000
        buf \o <<ByteAt(l, 24), ByteAt(l, 16), ByteAt(l, 8), ByteAt(l, 0)>>
    ELSE
        buf \o <<240, ByteAt(len, 24), ByteAt(len, 16), ByteAt(len, 8),
                 ByteAt(len, 0)>>

(***************************************************************************)
(* read_length (word.rs:146-183).  The code indexes data[1..4] without a   *)
(* length check: an index past the end of the slice panics.                *)
(***************************************************************************)
LenOk(c, inc) == [kind |-> "Ok", len |-> c, inc |-> inc, err |-> "none"]
LenErr(e)     == [kind |-> "Err", len |-> <<0, 0>>, inc |-> 0, err |-> e]
LenPanic      == [kind |-> "Panic", len |-> <<0, 0>>, inc |-> 0,
                  err |-> "index out of bounds"]

\* c <<= 8; c += b as u32
ShiftIn(c, b) == U32Add(U32Shl8(c), U32Byte(b))
\* c & m == v, on the leading byte
LeadIs(c, m, v) == U32And(c, <<0, m>>) = <<0, v>>

read_length(data) ==
    IF Len(data) < 1 THEN LenPanic
    ELSE
    LET c == U32Byte(data[1]) IN
    IF LeadIs(c, 128, 0) THEN LenOk(c, 1)
    ELSE IF LeadIs(c, 192, 128) THEN
        IF Len(data) < 2 THEN LenPanic
        ELSE LenOk(ShiftIn(U32And(c, U32Not(<<0, 192>>)), data[2]), 2)
    ELSE IF LeadIs(c, 224, 192) THEN
        IF Len(data) < 3 THEN LenPanic
        ELSE LenOk(ShiftIn(ShiftIn(U32And(c, U32Not(<<0, 224>>)), data[2]),
                           data[3]), 3)
    ELSE IF LeadIs(c, 240, 224) THEN
        IF Len(data) < 4 THEN LenPanic
        ELSE LenOk(ShiftIn(ShiftIn(ShiftIn(U32And(c, U32Not(<<0, 240>>)),
                                           data[2]), data[3]), data[4]), 4)
    ELSE IF LeadIs(c, 248, 240) THEN
        IF Len(data) < 5 THEN LenPanic
        ELSE LenOk(ShiftIn(ShiftIn(ShiftIn(U32Byte(data[2]), data[3]),
                                   data[4]), data[5]), 5)
    ELSE LenErr("PrefixLength")

(***************************************************************************)
(* Word (word.rs:4-17) and its classification, Word::try_from              *)
(* (word.rs:42-63).                                                        *)
(***************************************************************************)
WCategory(c) ==
    [type |-> "Category", cat |-> c, tag |-> 0, key |-> <<>>, value |-> None,
     msg |-> <<>>]
WTag(t) ==
    [type |-> "Tag", cat |-> "none", tag |-> t, key |-> <<>>, value |-> None,
     msg |-> <<>>]
WAttribute(k, v) ==
    [type |-> "Attribute", cat |-> "none", tag |-> 0, key |-> k, value |-> v,
     msg |-> <<>>]
WMessage(b) ==
    [type |-> "Message", cat |-> "none", tag |-> 0, key |-> <<>>,
     value |-> None, msg |-> b]

WordOk(w)  == [ok |-> TRUE, word |-> w, err |-> "none"]
WordErr(e) == [ok |-> FALSE, word |-> WMessage(<<>>), err |-> e]

\* WordCategory::try_from (word.rs:80-92)
WordCategory_try_from(value) ==
    IF value = B_done THEN WordOk(WCategory("Done"))
    ELSE IF value = B_re THEN WordOk(WCategory("Reply"))
    ELSE IF value = B_trap THEN WordOk(WCategory("Trap"))
    ELSE IF value = B_fatal THEN WordOk(WCategory("Fatal"))
    ELSE WordErr("InvalidCategory")

\* <[u8]>::is_ascii
IsAscii(b) == \A i \in 1..Len(b) : b[i] < 128

\* str::parse::<u16>: an optional '+', then one or more decimal digits whose
\* value fits a u16.  acc is the value of the digits read so far.
RECURSIVE ParseDigits(_, _, _)
ParseDigits(b, i, acc) ==
    IF i > Len(b) THEN Some(acc)
    ELSE IF b[i] < 48 \/ b[i] > 57 THEN None
    ELSE LET v == acc * 10 + (b[i] - 48) IN
         IF v > 65535 THEN None ELSE ParseDigits(b, i + 1, v)

ParseU16(b) ==
    IF Len(b) = 0 THEN None
    ELSE IF b[1] \in {43, 45} /\ Len(b) = 1 THEN None
    ELSE IF b[1] = 43 THEN ParseDigits(b, 2, 0)
    ELSE ParseDigits(b, 1, 0)

\* position of the first '=' of b, 0 when there is none
RECURSIVE FirstEq(_, _)
FirstEq(b, i) ==
    IF i > Len(b) THEN 0
    ELSE IF b[i] = 61 THEN i
    ELSE FirstEq(b, i + 1)

\* word.rs:47-51: the text after ".tag="
TagWord(tag, n) ==
    IF ~IsAscii(tag) THEN WordErr("InvalidTagDigits")
    ELSE IF n.some THEN WordOk(WTag(n.val)) ELSE WordErr("InvalidTag")

\* word.rs:53-56: splitn(2, '=') of the text after "=", e the place of '='
AttributeWord(attribute_content, e) ==
    IF e = 0 THEN WordOk(WAttribute(attribute_content, None))
    ELSE WordOk(WAttribute(SubSeq(attribute_content, 1, e - 1),
                           Some(Skip(attribute_content, e))))

Word_try_from(value) ==
    IF StartsWith(value, B_tag_prefix) THEN
        TagWord(Skip(value, 5), ParseU16(Skip(value, 5)))
    ELSE IF StartsWith(value, B_eq) THEN
        AttributeWord(Skip(value, 1), FirstEq(Skip(value, 1), 1))
    ELSE IF StartsWith(value, B_bang) THEN
        WordCategory_try_from(Skip(value, 1))
    ELSE WordOk(WMessage(value))

\* TrapCategory::try_from (word.rs:218-234): one ASCII digit '0'..'7'
TrapCategory_try_from(value) ==
    IF Len(value) = 1 /\ value[1] >= 48 /\ value[1] <= 55
    THEN Some(value[1] - 48) ELSE None

(***************************************************************************)
(* WordIterator::next (word.rs:114-143) at position idx of data.           *)
(***************************************************************************)
Item(k, w, e, i) == [kind |-> k, word |-> w, err |-> e, idx |-> i]

\* length as usize + inc + idx > data.len() (word.rs:123), the sum and
\* data.len() compared by their 16-bit halves: a usize is wider than the
\* u32 and the sum does not wrap
ExceedsLen(length, inc, idx, n) ==
    LET lo == length[2] + inc + (idx % 65536)
        hi == length[1] + (idx \div 65536) + (lo \div 65536)
    IN  \/ hi > n \div 65536
        \/ hi = n \div 65536 /\ lo % 65536 > n % 65536

\* word.rs:126-136: the word of length r.len after the prefix
WordAt(data, current_word_pos, end, w) ==
    IF w.ok THEN Item("Word", w.word, "none", end)
    ELSE Item("Error", WMessage(<<>>), w.err, end)

\* word.rs:122-139: r is what read_length returned
WordAfterLength(data, idx, r) ==
    IF r.kind = "Panic" THEN Item("Panic", WMessage(<<>>), r.err, idx)
    ELSE IF r.kind = "Err" THEN Item("Error", WMessage(<<>>), r.err, idx)
    ELSE IF ExceedsLen(r.len, r.inc, idx, Len(data))
         THEN Item("None", WMessage(<<>>), "none", idx)
    ELSE IF r.len = <<0, 0>>
         THEN Item("Terminator", WMessage(<<>>), "none", idx + r.inc)
    ELSE WordAt(data, idx + r.inc, idx + r.inc + r.len[1] * 65536 + r.len[2],
                Word_try_from(SubSeq(data, idx + r.inc + 1,
                              idx + r.inc + r.len[1] * 65536 + r.len[2])))

WordIterator_next(data, idx) ==
    IF idx >= Len(data) THEN Item("None", WMessage(<<>>), "none", idx)
    ELSE WordAfterLength(data, idx, read_length(Skip(data, idx)))

(***************************************************************************)
(* next_sentence (word.rs:185-200).                                        *)
(***************************************************************************)
SentOk(ws, n) == [kind |-> "Ok", words |-> ws, inc |-> n, err |-> "none"]
SentErr(e)    == [kind |-> "Err", words |-> <<>>, inc |-> 0, err |-> e]
SentPanic     == [kind |-> "Panic", words |-> <<>>, inc |-> 0,
                  err |-> "index out of bounds"]

\* word.rs:188-199: the loop, and its body on the item the iterator gave
RECURSIVE SentenceLoop(_, _, _)
SentenceItem(data, sentence, item) ==
    CASE item.kind = "None"       -> SentErr("Incomplete")
      [] item.kind = "Terminator" -> SentOk(sentence, item.idx)
      [] item.kind = "Word"       ->
            SentenceLoop(data, item.idx, Append(sentence, item.word))
      [] item.kind = "Error"      -> SentErr(item.err)
      [] item.kind = "Panic"      -> SentPanic

\* iterator.next() is called once for each round of the loop
SentenceLoop(data, idx, sentence) ==
    CHOOSE out \in {SentenceItem(data, sentence, item) :
                        item \in {WordIterator_next(data, idx)}} : TRUE

next_sentence(data) == SentenceLoop(data, 0, <<>>)

(***************************************************************************)
(* CommandBuffer::write_word and CommandBuilder (command.rs).              *)
(***************************************************************************)
\* u16::to_string: the decimal digits of n, no sign, no leading zero
RECURSIVE to_string(_)
to_string(n) ==
    IF n < 10 THEN <<48 + n>>
    ELSE Append(to_string(n \div 10), 48 + (n % 10))

\* command.rs:295-298; w is the concatenation the WordContent writes
write_word(buf, w) == write_len(buf, U32Of(Len(w))) \o w

\* command.rs:22-29
CommandBuilder_new(tag, command) ==
    [tag |-> tag,
     cmd |-> write_word(write_word(<<>>, command),
                        B_tag_prefix \o to_string(tag))]

\* command.rs:94-102
attribute(self, key, value) ==
    [tag |-> self.tag,
     cmd |-> write_word(self.cmd, B_eq \o key \o B_eq \o value)]

\* command.rs:113-117
flag_attribute(self, key) ==
    [tag |-> self.tag, cmd |-> write_word(self.cmd, B_eq \o key \o B_eq)]

\* command.rs:127-130
query_is_present(self, name) ==
    [tag |-> self.tag, cmd |-> write_word(self.cmd, <<63>> \o name)]

\* command.rs:142-145
query_not_present(self, name) ==
    [tag |-> self.tag, cmd |-> write_word(self.cmd, <<63, 45>> \o name)]

\* command.rs:155-163
query_equal(self, name, value) ==
    [tag |-> self.tag,
     cmd |-> write_word(self.cmd, <<63>> \o name \o B_eq \o value)]

\* command.rs:175-183
query_gt(self, key, value) ==
    [tag |-> self.tag,
     cmd |-> write_word(self.cmd, <<63, 62>> \o key \o B_eq \o value)]

\* command.rs:194-202
query_lt(self, key, value) ==
    [tag |-> self.tag,
     cmd |-> write_word(self.cmd, <<63, 60>> \o key \o B_eq \o value)]

\* command.rs:313-322: '!', '&', '|', '.'
QueryOperator_code(op) ==
    CASE op = "Not" -> 33
      [] op = "And" -> 38
      [] op = "Or"  -> 124
      [] op = "Dot" -> 46

\* command.rs:212-221: "?#" and the code of each operator, as one word
query_operations(self, operations) ==
    [tag |-> self.tag,
     cmd |-> write_word(self.cmd,
                        <<63, 35>> \o [i \in 1..Len(operations) |->
                                          QueryOperator_code(operations[i])])]

\* command.rs:228-236
build(self) == [tag |-> self.tag, data |-> write_len(self.cmd, <<0, 0>>)]

\* a login that leaves the password attribute out when there is none
login_omits(tag, username, password) ==
    LET builder == attribute(CommandBuilder_new(tag, B_login), B_name, username)
    IN  build(IF password.some
              THEN attribute(builder, B_password, password.val)
              ELSE builder)

\* command.rs:48-60; password is an Option
login(tag, username, password) ==
    LET builder == attribute(CommandBuilder_new(tag, B_login), B_name, username)
    IN  build(IF password.some
              THEN attribute(builder, B_password, password.val)
              ELSE flag_attribute(builder, B_password))

\* command.rs:78-82
cancel(tag) ==
    build(attribute(CommandBuilder_new(tag, B_cancel), B_tag_eq, to_string(tag)))

(***************************************************************************)
(* The peer's side of the wire: a sentence is its words, each with its     *)
(* length prefix, then the zero-length terminator.                         *)
(***************************************************************************)
RECURSIVE EncodeWords(_, _)
EncodeWords(buf, ws) ==
    IF ws = <<>> THEN write_len(buf, <<0, 0>>)
    ELSE EncodeWords(write_word(buf, Head(ws)), Tail(ws))

Encode(ws) == EncodeWords(<<>>, ws)

\* the word texts
T_done      == B_bang \o B_done
T_re        == B_bang \o B_re
T_trap      == B_bang \o B_trap
T_fatal     == B_bang \o B_fatal
T_tag(t)    == B_tag_prefix \o to_string(t)
T_attr(k, v) == B_eq \o k \o B_eq \o v
T_flag(k)   == B_eq \o k

(***************************************************************************)
(* Error (error.rs:6-16) and the caller's response type D.  The three      *)
(* conversions of ParsedMessage (device.rs:26-30) are the caller's; a      *)
(* result is kept as the conversion applied and its argument.              *)
(***************************************************************************)
E_None             == [class |-> "none", detail |-> "none"]
E_Io               == [class |-> "Io", detail |-> "none"]
E_ConnectionClosed == [class |-> "ConnectionClosed", detail |-> "none"]
E_LoginFailed      == [class |-> "LoginFailed", detail |-> "none"]
E_Protocol(e)      == [class |-> "Protocol", detail |-> e]

parse_message(attributes) ==
    [kind |-> "Sentence", attrs |-> attributes, error |-> E_None,
     category |-> 0, message |-> <<>>]
process_error(error) ==
    [kind |-> "Error", attrs |-> <<>>, error |-> error,
     category |-> 0, message |-> <<>>]
process_trap(category, message) ==
    [kind |-> "Trap", attrs |-> <<>>, error |-> E_None,
     category |-> category, message |-> message]

(***************************************************************************)
(* The tag table, a HashMap<u16, mpsc::Sender<D>>.                         *)
(***************************************************************************)
EmptyTable == [t \in {} |-> 0]
\* HashMap::insert: an entry already under the tag is replaced
Insert(rc, tag, chan) ==
    [t \in DOMAIN rc \cup {tag} |-> IF t = tag THEN chan ELSE rc[t]]
\* HashMap::remove
Remove(rc, tag) == [t \in DOMAIN rc \ {tag} |-> rc[t]]
Channels(rc) == {rc[t] : t \in DOMAIN rc}

(***************************************************************************)
(* send_message_back (device.rs:336-352).  dropped[c] says whether the     *)
(* receiver of channel c is gone, which is when Sender::send fails.        *)
(* The outcome of a handler on a sentence: the error it returned, the      *)
(* table it left, and the message it put on a channel, if any.             *)
(***************************************************************************)
Outcome(e, rc, s) == [err |-> e, rc |-> rc, send |-> s]

\* a failed send reported to the caller as an error, the entry left in
\* the table
send_message_back_strict(rc, found_tag, message, dropped) ==
    IF ~found_tag.some THEN Outcome("IncompleteSentence:Tag", rc, None)
    ELSE IF found_tag.val \notin DOMAIN rc THEN Outcome("UnknownTag", rc, None)
    ELSE IF dropped[rc[found_tag.val]] THEN Outcome("UnknownTag", rc, None)
    ELSE Outcome("none", rc, Some(<<rc[found_tag.val], message>>))

send_message_back(rc, found_tag, message, dropped) ==
    IF ~found_tag.some THEN Outcome("IncompleteSentence:Tag", rc, None)
    ELSE LET tag == found_tag.val IN
    IF tag \notin DOMAIN rc THEN Outcome("UnknownTag", rc, None)
    ELSE IF dropped[rc[tag]] THEN Outcome("none", Remove(rc, tag), None)
    ELSE Outcome("none", rc, Some(<<rc[tag], message>>))

(***************************************************************************)
(* process_sentence (device.rs:220-334).                                   *)
(***************************************************************************)
\* the scan of a reply with each attribute put before the ones already read
RECURSIVE ReplyScanNewestFirst(_, _, _, _)
ReplyScanNewestFirst(sentence, i, found_tag, attributes) ==
    IF i > Len(sentence)
    THEN [err |-> "none", found_tag |-> found_tag, attributes |-> attributes]
    ELSE LET word == sentence[i] IN
    CASE word.type = "Category" ->
            [err |-> "WordSequence:Category", found_tag |-> found_tag,
             attributes |-> attributes]
      [] word.type = "Tag" ->
            ReplyScanNewestFirst(sentence, i + 1, Some(word.tag), attributes)
      [] word.type = "Attribute" ->
            ReplyScanNewestFirst(sentence, i + 1, found_tag,
                                 <<<<word.key, word.value>>>> \o attributes)
      [] word.type = "Message" ->
            [err |-> "WordSequence:Message", found_tag |-> found_tag,
             attributes |-> attributes]

\* device.rs:255-272: the words after !re
RECURSIVE ReplyScan(_, _, _, _)
ReplyScan(sentence, i, found_tag, attributes) ==
    IF i > Len(sentence)
    THEN [err |-> "none", found_tag |-> found_tag, attributes |-> attributes]
    ELSE LET word == sentence[i] IN
    CASE word.type = "Category" ->
            [err |-> "WordSequence:Category", found_tag |-> found_tag,
             attributes |-> attributes]
      [] word.type = "Tag" ->
            ReplyScan(sentence, i + 1, Some(word.tag), attributes)
      [] word.type = "Attribute" ->
            ReplyScan(sentence, i + 1, found_tag,
                      Append(attributes, <<word.key, word.value>>))
      [] word.type = "Message" ->
            [err |-> "WordSequence:Message", found_tag |-> found_tag,
             attributes |-> attributes]

\* device.rs:284-315: the words after !trap
\* a scan that skips the attributes it does not know
RECURSIVE TrapScanLenient(_, _, _, _, _)
TrapScanLenient(sentence, i, found_category, found_message, found_tag) ==
    IF i > Len(sentence)
    THEN [err |-> "none", found_category |-> found_category,
          found_message |-> found_message, found_tag |-> found_tag]
    ELSE LET word == sentence[i]
             stop(e) == [err |-> e, found_category |-> found_category,
                         found_message |-> found_message,
                         found_tag |-> found_tag]
    IN
    CASE word.type = "Category" -> stop("WordSequence:Category")
      [] word.type = "Tag" ->
            TrapScanLenient(sentence, i + 1, found_category, found_message,
                            Some(word.tag))
      [] word.type = "Attribute" /\ word.key = B_category /\ word.value.some ->
            TrapScanLenient(sentence, i + 1,
                            IF TrapCategory_try_from(word.value.val).some
                            THEN TrapCategory_try_from(word.value.val)
                            ELSE found_category,
                            found_message, found_tag)
      [] word.type = "Attribute" /\ word.key = B_message ->
            TrapScanLenient(sentence, i + 1, found_category, word.value,
                            found_tag)
      [] word.type = "Attribute"
            /\ ~(word.key = B_category /\ word.value.some)
            /\ word.key # B_message ->
            TrapScanLenient(sentence, i + 1, found_category, found_message,
                            found_tag)
      [] word.type = "Message" -> stop("WordSequence:Message")

RECURSIVE TrapScan(_, _, _, _, _)
TrapScan(sentence, i, found_category, found_message, found_tag) ==
    IF i > Len(sentence)
    THEN [err |-> "none", found_category |-> found_category,
          found_message |-> found_message, found_tag |-> found_tag]
    ELSE LET word == sentence[i]
             stop(e) == [err |-> e, found_category |-> found_category,
                         found_message |-> found_message,
                         found_tag |-> found_tag]
    IN
    CASE word.type = "Category" -> stop("WordSequence:Category")
      [] word.type = "Tag" ->
            TrapScan(sentence, i + 1, found_category, found_message,
                     Some(word.tag))
      [] word.type = "Attribute" /\ word.key = B_category /\ word.value.some ->
            TrapScan(sentence, i + 1,
                     IF TrapCategory_try_from(word.value.val).some
                     THEN TrapCategory_try_from(word.value.val)
                     ELSE found_category,
                     found_message, found_tag)
      [] word.type = "Attribute" /\ word.key = B_message ->
            TrapScan(sentence, i + 1, found_category, word.value, found_tag)
      [] word.type = "Attribute"
            /\ ~(word.key = B_category /\ word.value.some)
            /\ word.key # B_message ->
            stop("InvalidAttributeInTrap")
      [] word.type = "Message" -> stop("WordSequence:Message")

\* a trap without a usable category answered as a trap of category 0
TrapMessageLenient(found_category, found_message) ==
    IF found_message.some
    THEN process_trap(IF found_category.some THEN found_category.val ELSE 0,
                      found_message.val)
    ELSE process_error(E_Protocol("MissingMessageInTrap"))

\* device.rs:316-326: the message a scanned !trap is answered with
TrapMessage(found_category, found_message) ==
    IF found_category.some /\ found_message.some
    THEN process_trap(found_category.val, found_message.val)
    ELSE IF ~found_category.some
    THEN process_error(E_Protocol("MissingCategoryInTrap"))
    ELSE process_error(E_Protocol("MissingMessageInTrap"))

\* a Done that is refused when its tag is not in the table
DoneBranchStrict(sentence, rc) ==
    IF Len(sentence) < 2 THEN Outcome("IncompleteSentence:Tag", rc, None)
    ELSE IF sentence[2].type # "Tag"
    THEN Outcome("WordSequence:" \o sentence[2].type, rc, None)
    ELSE IF sentence[2].tag \notin DOMAIN rc THEN Outcome("UnknownTag", rc, None)
    ELSE Outcome("none", Remove(rc, sentence[2].tag), None)

\* a Done that leaves the entry of its tag in the table
\* a Done branch that tells the caller about the end with an error result
DoneBranchAppendsError(sentence, rc) ==
    IF Len(sentence) < 2 THEN Outcome("IncompleteSentence:Tag", rc, None)
    ELSE IF sentence[2].type # "Tag"
    THEN Outcome("WordSequence:" \o sentence[2].type, rc, None)
    ELSE IF sentence[2].tag \in DOMAIN rc
    THEN Outcome("none", Remove(rc, sentence[2].tag),
                 Some(<<rc[sentence[2].tag],
                        process_error(E_ConnectionClosed)>>))
    ELSE Outcome("none", rc, None)

DoneBranchKeeps(sentence, rc) ==
    IF Len(sentence) < 2 THEN Outcome("IncompleteSentence:Tag", rc, None)
    ELSE IF sentence[2].type # "Tag"
    THEN Outcome("WordSequence:" \o sentence[2].type, rc, None)
    ELSE Outcome("none", rc, None)

\* device.rs:238-251
DoneBranch(sentence, rc) ==
    IF Len(sentence) < 2 THEN Outcome("IncompleteSentence:Tag", rc, None)
    ELSE IF sentence[2].type # "Tag"
    THEN Outcome("WordSequence:" \o sentence[2].type, rc, None)
    ELSE Outcome("none", Remove(rc, sentence[2].tag), None)

\* device.rs:252-279; scan is what the loop over the words left
ReplySend(scan, rc, dropped) ==
    IF scan.err # "none" THEN Outcome(scan.err, rc, None)
    ELSE send_message_back(rc, scan.found_tag,
                           parse_message(scan.attributes), dropped)

ReplyBranch(sentence, rc, dropped) ==
    ReplySend(ReplyScan(sentence, 2, None, <<>>), rc, dropped)

\* a trap without category or message refused as a protocol error of the
\* sentence, nothing sent to its tag
TrapSendStops(scan, rc, dropped) ==
    IF scan.err # "none" THEN Outcome(scan.err, rc, None)
    ELSE IF ~scan.found_category.some
    THEN Outcome("MissingCategoryInTrap", rc, None)
    ELSE IF ~scan.found_message.some
    THEN Outcome("MissingMessageInTrap", rc, None)
    ELSE send_message_back(rc, scan.found_tag,
                           TrapMessage(scan.found_category,
                                       scan.found_message), dropped)

\* device.rs:280-328; scan is what the loop over the words left
TrapSend(scan, rc, dropped) ==
    IF scan.err # "none" THEN Outcome(scan.err, rc, None)
    ELSE send_message_back(rc, scan.found_tag,
                           TrapMessage(scan.found_category,
                                       scan.found_message), dropped)

TrapBranch(sentence, rc, dropped) ==
    TrapSend(TrapScan(sentence, 2, None, None, None), rc, dropped)

\* a process_sentence that refuses a Fatal sentence as a protocol error
process_sentence_fatal_stops(sentence, rc, dropped) ==
    IF Len(sentence) = 0 THEN Outcome("IncompleteSentence:Category", rc, None)
    ELSE IF sentence[1].type # "Category"
    THEN Outcome("WordSequence:" \o sentence[1].type, rc, None)
    ELSE CASE sentence[1].cat = "Done"  -> DoneBranch(sentence, rc)
           [] sentence[1].cat = "Reply" -> ReplyBranch(sentence, rc, dropped)
           [] sentence[1].cat = "Trap"  -> TrapBranch(sentence, rc, dropped)
           [] sentence[1].cat = "Fatal" -> Outcome("Fatal", rc, None)

\* device.rs:220-334

process_sentence(sentence, rc, dropped) ==
    IF Len(sentence) = 0 THEN Outcome("IncompleteSentence:Category", rc, None)
    ELSE IF sentence[1].type # "Category"
    THEN Outcome("WordSequence:" \o sentence[1].type, rc, None)
    ELSE CASE sentence[1].cat = "Done"  -> DoneBranch(sentence, rc)
           [] sentence[1].cat = "Reply" -> ReplyBranch(sentence, rc, dropped)
           [] sentence[1].cat = "Trap"  -> TrapBranch(sentence, rc, dropped)
           [] sentence[1].cat = "Fatal" -> Outcome("none", rc, None)

(***************************************************************************)
(* Bounds of the model and constants of the program.                       *)
(***************************************************************************)
MaxCmds   == 2      \* send_command calls made by the callers
MaxDrainCmds == 3   \* the same where a table of several tags is drained
MaxChunks == 2      \* chunks of data the peer sends
MaxWire   == 1      \* chunks in flight on the socket, unread
MaxDetached == 18   \* send_command calls whose stream is dropped at once
MaxAlloc  == 65538  \* fetch_add calls on the tag counter: one lap and two
QueueCapacity   == 16      \* device.rs:89  mpsc::channel(16)
ChannelCapacity == 16      \* device.rs:51  mpsc::channel(16)
TagModulus      == 65536   \* device.rs:67  AtomicU16
ReserveStep     == 64      \* bytes: BufMut for Vec<u8> grows a full Vec by 64

Chans == 1..MaxDrainCmds
\* stands for every response channel whose receiver was dropped as soon
\* as send_command returned it
Detached == MaxDrainCmds + 1

(***************************************************************************)
(* What the peer may put on the wire: sentences for the tags of the first  *)
(* commands, whole, two at a time, or cut inside a word.                   *)
(***************************************************************************)
S_done(t)  == Encode(<<T_done, T_tag(t)>>)
S_reply(t) == Encode(<<T_re, T_tag(t), T_attr(B_name, B_ether1), T_flag(B_re)>>)
S_trap(t)  == Encode(<<T_trap, T_tag(t), T_attr(B_category, <<50>>),
                       T_attr(B_message, B_name)>>)
S_trap_no_category(t) == Encode(<<T_trap, T_tag(t), T_attr(B_message, B_name)>>)
S_trap_no_message(t)  == Encode(<<T_trap, T_attr(B_category, <<50>>), T_tag(t)>>)
S_trap_bad_category(t) ==
    Encode(<<T_trap, T_tag(t), T_attr(B_category, <<57>>),
             T_attr(B_message, B_name)>>)
S_trap_flag_message(t) ==
    Encode(<<T_trap, T_tag(t), T_attr(B_category, <<50>>), T_flag(B_message)>>)
S_trap_flag_category(t) ==
    Encode(<<T_trap, T_tag(t), T_flag(B_category), T_attr(B_message, B_name)>>)
S_trap_other_attr(t) == Encode(<<T_trap, T_tag(t), T_attr(B_name, B_ether1)>>)
S_trap_message_word(t) ==
    Encode(<<T_trap, T_tag(t), B_name, T_attr(B_name, B_ether1)>>)
S_reply_b(t) == Encode(<<T_re, T_attr(B_name, B_name), T_tag(t)>>)
S_fatal         == Encode(<<T_fatal, B_name>>)
S_reply_no_tag  == Encode(<<T_re, T_attr(B_name, B_ether1)>>)
S_done_no_tag   == Encode(<<T_done>>)
S_tag_first(t)  == Encode(<<T_tag(t), T_done>>)
S_reply_message(t) == Encode(<<T_re, T_tag(t), B_name>>)
S_empty         == Encode(<<>>)
S_bad_category  == Encode(<<B_bang \o B_name>>)
S_bad_tag       == Encode(<<T_done, B_tag_prefix \o B_name>>)
S_bad_prefix    == <<248>>
S_cut_prefix    == <<128>>

\* What the peer sends in the runs of a specification: the answer to the
\* login and sentences for the tags 1 and 2 of the first two commands.
\* Tag 9 is a tag no command gets within the bounds.  The last chunk of
\* MenuRoute and of MenuLogin is longer than ReserveStep: one read does not
\* take it whole.
MenuCore == {S_done(0), S_reply(1), S_done(1)}
MenuRoute ==
    {S_done(0), S_reply(1), S_reply(1) \o S_done(1), S_done(1) \o S_reply(1),
     S_reply(2) \o S_reply(1), S_reply(1) \o S_reply(1) \o S_done(1)}
MenuTrap ==
    {S_done(0), S_trap(1), S_trap_no_category(1), S_trap_no_message(1),
     S_trap_bad_category(1), S_trap_flag_message(1), S_trap_flag_category(1),
     S_trap_other_attr(1), S_trap_message_word(1)}
MenuErr ==
    {S_done(0), S_reply(1), S_reply(9), S_reply_no_tag, S_done_no_tag,
     S_tag_first(1), S_reply_message(1), S_empty, S_bad_category \o S_reply(1),
     S_reply(9) \o S_reply(1), S_fatal \o S_reply(1), S_bad_prefix, S_cut_prefix}
MenuWrap == {S_done(0)}
MenuDrop ==
    {S_done(0), S_reply(1), S_trap(1), S_trap_no_message(2), S_reply(2)}
MenuOrder ==
    {S_done(0),
     S_reply(1) \o S_reply_b(1) \o S_trap(1) \o S_done(1),
     S_reply_b(1) \o S_reply(2) \o S_reply(1),
     S_trap(1) \o S_reply(1) \o S_reply(1)}
\* n copies of the bytes s in one chunk
RECURSIVE Repeat(_, _)
Repeat(s, n) == IF n = 0 THEN <<>> ELSE s \o Repeat(s, n - 1)
\* one more reply for a tag than its channel holds, then one for another
S_reply_bare(t) == Encode(<<T_re, T_tag(t)>>)
MenuFull ==
    {S_done(0),
     Repeat(S_reply_bare(1), ChannelCapacity + 1) \o S_reply_bare(2)}

\* as many replies for a tag as its channel holds
MenuDrain == {S_done(0), Repeat(S_reply_bare(1), ChannelCapacity)}

\* answers to the first commands
MenuQueue == {S_done(0), S_done(1)}
MenuLogin ==
    {S_done(0), S_done(0) \o S_reply(1), SubSeq(S_done(0), 1, 9),
     Skip(S_done(0), 9), S_reply(1), S_fatal, S_done_no_tag, S_bad_tag,
     S_bad_prefix, S_cut_prefix, S_done(0) \o S_reply(1) \o S_reply(1)}

Data(bytes) == [kind |-> "data", bytes |-> bytes]
Eof         == [kind |-> "eof", bytes |-> <<>>]
ReadError   == [kind |-> "err", bytes |-> <<>>]

(***************************************************************************)
(* State after TcpStream::connect and the declarations of                  *)
(* device.rs:85-91, before the login command is written.                   *)
(***************************************************************************)
Pending == [kind |-> "pending", error |-> E_None]
Result(k, e) == [kind |-> k, error |-> e]
NoSnap == [active |-> FALSE, from |-> "none", error |-> E_None,
           table |-> EmptyTable, sent |-> [c \in Chans |-> <<>>]]
Snap(from, e) == [active |-> TRUE, from |-> from, error |-> e,
                  table |-> running_commands, sent |-> sent]

FnOff == fn_pc = "off" /\ fn_in = <<>> /\ fn_out = <<>>

Fresh ==
    /\ running = TRUE
    /\ packet_buf = <<>>
    /\ packet_cap = 0
    /\ offset = 0
    /\ held = <<>>
    /\ queue = <<>>
    /\ running_commands = EmptyTable
    /\ command_queue = <<>>
    /\ next_tag = 0
    /\ connect_result = Pending
    /\ handle_alive = FALSE
    /\ err = E_None
    /\ ret = "none"
    /\ wire = <<>>
    /\ nsent = 0
    /\ sock_ok = TRUE
    /\ tx_log = <<>>
    /\ ncmd = 0
    /\ created = <<>>
    /\ waiters = <<>>
    /\ call_tag = [c \in Chans |-> 0]
    /\ dropped_calls = {}
    /\ sent = [c \in Chans |-> <<>>]
    /\ taken = [c \in Chans |-> 0]
    /\ rx_dropped = [c \in Chans \cup {Detached} |-> c = Detached]
    /\ failed_calls = {}
    /\ ndetached = 0
    /\ nalloc = 0
    /\ snap = NoSnap
    /\ serr = NoSnap
    /\ done_chans = {}

\* connect() is called against a peer that sends chunks of m
Start(m) == menu = m /\ pc = "connect" /\ Fresh /\ FnOff
\* no connection: only the codec's functions are applied
Off == menu = {} /\ pc = "off" /\ Fresh

Write(op, tag) == [op |-> op, tag |-> tag, ok |-> sock_ok]

(***************************************************************************)
(* connect(): the login command and the login loop (device.rs:93-122),     *)
(* then the spawn of the task and the return of the handle                 *)
(* (device.rs:124, 199-205).                                               *)
(***************************************************************************)
UnchangedCalls   == UNCHANGED <<created, waiters, call_tag, dropped_calls>>
UnchangedCallers ==
    /\ UNCHANGED <<ncmd, sent, taken, rx_dropped, failed_calls>>
    /\ UnchangedCalls
UnchangedGhost   == UNCHANGED <<snap, serr, done_chans>>
UnchangedFixed   == UNCHANGED <<menu, ndetached, fn_pc, fn_in, fn_out>>

\* device.rs:93-98
\* TcpStream::connect or set_nodelay fails (device.rs:82-83): connect
\* returns the error before the tag counter exists and before any write
ConnectFails ==
    /\ pc = "connect"
    /\ pc' = "failed"
    /\ connect_result' = Result("Err", E_Io)
    /\ UNCHANGED <<running, packet_buf, packet_cap, offset, held, queue,
                   running_commands, command_queue, next_tag, nalloc,
                   handle_alive, err, ret, wire, nsent, sock_ok, tx_log>>
    /\ UnchangedCallers /\ UnchangedGhost /\ UnchangedFixed

WriteLogin ==
    /\ pc = "connect"
    /\ next_tag' = (next_tag + 1) % TagModulus
    /\ nalloc' = nalloc + 1
    /\ tx_log' = Append(tx_log, Write("login", next_tag))
    /\ IF sock_ok
       THEN pc' = "login" /\ UNCHANGED connect_result
       ELSE pc' = "failed" /\ connect_result' = Result("Err", E_Io)
    /\ UNCHANGED <<running, packet_buf, packet_cap, offset, held, queue,
                   running_commands, command_queue, handle_alive, err, ret,
                   wire, nsent, sock_ok>>
    /\ UnchangedCallers /\ UnchangedGhost /\ UnchangedFixed

\* tcp_rx.read_buf(&mut packet_buf) (device.rs:102, 128) asks the Vec for
\* its spare capacity, and a Vec that is full is first grown by
\* Vec::reserve(ReserveStep): to twice its capacity or to its length plus
\* ReserveStep, whichever is larger
Reserved(len, cap) ==
    IF cap # len THEN cap
    ELSE IF 2 * cap > len + ReserveStep THEN 2 * cap ELSE len + ReserveStep
\* one read takes what is there, and no more than the spare capacity
ReadLen(len, cap, chunk) ==
    IF Reserved(len, cap) - len < Len(chunk.bytes)
    THEN Reserved(len, cap) - len ELSE Len(chunk.bytes)
\* the socket after a read of n bytes of the chunk at its head
AfterRead(n) ==
    IF n = Len(Head(wire).bytes) THEN Tail(wire)
    ELSE <<[Head(wire) EXCEPT !.bytes = Skip(@, n)]>> \o Tail(wire)

\* the login pattern of device.rs:109
IsLoginDone(sentence) ==
    /\ Len(sentence) = 2
    /\ sentence[1].type = "Category" /\ sentence[1].cat = "Done"
    /\ sentence[2].type = "Tag"

\* device.rs:102-121: the read returned `chunk`, buf is packet_buf after
\* it, r is next_sentence(&packet_buf)
LoginOn(chunk, buf, r) ==
    CASE chunk.kind = "err" ->
           /\ pc' = "failed"
           /\ connect_result' = Result("Err", E_Io)
           /\ UNCHANGED <<running, packet_buf, handle_alive>>
      [] chunk.kind = "eof" ->
           /\ running' = FALSE
           /\ pc' = "shutdown"
           /\ connect_result' = Result("Ok", E_None)
           /\ handle_alive' = TRUE
           /\ UNCHANGED packet_buf
      [] chunk.kind = "data" /\ r.kind = "Ok" /\ IsLoginDone(r.words) ->
           /\ packet_buf' = Skip(buf, r.inc)
           /\ pc' = "select"
           /\ connect_result' = Result("Ok", E_None)
           /\ handle_alive' = TRUE
           /\ UNCHANGED running
      [] chunk.kind = "data" /\ r.kind = "Ok" /\ ~IsLoginDone(r.words) ->
           /\ packet_buf' = buf
           /\ pc' = "failed"
           /\ connect_result' = Result("Err", E_LoginFailed)
           /\ UNCHANGED <<running, handle_alive>>
      [] chunk.kind = "data" /\ r.kind = "Err" /\ r.err = "Incomplete" ->
           /\ packet_buf' = buf
           /\ UNCHANGED <<pc, connect_result, running, handle_alive>>
      [] chunk.kind = "data" /\ r.kind = "Err" /\ r.err # "Incomplete" ->
           /\ packet_buf' = buf
           /\ pc' = "failed"
           /\ connect_result' = Result("Err", E_Protocol(r.err))
           /\ UNCHANGED <<running, handle_alive>>
      [] chunk.kind = "data" /\ r.kind = "Panic" ->
           /\ packet_buf' = buf
           /\ pc' = "failed"
           /\ connect_result' = Result("Panic", E_None)
           /\ UNCHANGED <<running, handle_alive>>

\* device.rs:101-122, one iteration of the login loop: the read takes n
\* bytes; packet_buf.split_off(inc) (device.rs:112) leaves a Vec that holds
\* the bytes after the sentence and has no spare capacity
LoginRead ==
    /\ pc = "login"
    /\ wire # <<>>
    /\ \E n \in {ReadLen(Len(packet_buf), packet_cap, Head(wire))} :
       \E buf \in {packet_buf \o SubSeq(Head(wire).bytes, 1, n)} :
       \E r \in {next_sentence(buf)} :
           /\ wire' = IF Head(wire).kind = "data" THEN AfterRead(n) ELSE wire
           /\ LoginOn(Head(wire), buf, r)
           /\ packet_cap' =
                  IF /\ Head(wire).kind = "data" /\ r.kind = "Ok"
                     /\ IsLoginDone(r.words)
                  THEN Len(buf) - r.inc
                  ELSE Reserved(Len(packet_buf), packet_cap)
    /\ UNCHANGED <<offset, held, queue, running_commands, command_queue,
                   next_tag, nalloc, err, ret, nsent, sock_ok, tx_log>>
    /\ UnchangedCallers /\ UnchangedGhost /\ UnchangedFixed

(***************************************************************************)
(* The spawned task (device.rs:124-197).                                   *)
(***************************************************************************)
\* a call of notify_error(&mut running_commands, e); r is where the task
\* goes on when the call returns
StartNotify(e, r) ==
    /\ pc' = "notify"
    /\ err' = e
    /\ ret' = r
    /\ snap' = IF DOMAIN running_commands = {} /\ snap.active THEN snap
               ELSE Snap(r, e)

\* a channel without a bound: every send completes at once
CanSendUnbounded(c) == TRUE

\* Sender::send(..).await completes: the receiver is gone or there is room
CanSend(c) == rx_dropped[c] \/ Len(sent[c]) - taken[c] < ChannelCapacity

\* the read arm of the select (device.rs:128-165), up to the parse loop
SelectRead ==
    /\ pc = "select"
    /\ wire # <<>>
    /\ packet_cap' = Reserved(Len(packet_buf), packet_cap)
    /\ LET chunk == Head(wire)
           n == ReadLen(Len(packet_buf), packet_cap, Head(wire)) IN
       CASE chunk.kind = "data" ->
              /\ wire' = AfterRead(n)
              /\ packet_buf' = packet_buf \o SubSeq(chunk.bytes, 1, n)
              /\ offset' = 0
              /\ pc' = "parse"
              /\ UNCHANGED <<err, ret, snap>>
         [] chunk.kind = "eof" ->
              /\ StartNotify(E_ConnectionClosed, "read")
              /\ UNCHANGED <<wire, packet_buf, offset>>
         [] chunk.kind = "err" ->
              /\ StartNotify(E_Io, "read")
              /\ UNCHANGED <<wire, packet_buf, offset>>
    /\ UNCHANGED <<running, held, queue, running_commands, command_queue,
                   next_tag, nalloc, connect_result, handle_alive, nsent,
                   sock_ok, tx_log, serr, done_chans>>
    /\ UnchangedCallers /\ UnchangedFixed

\* channels finished by the sentence: a Done for a tag of the table
DoneChannel(sentence, rc) ==
    IF /\ Len(sentence) >= 2
       /\ sentence[1].type = "Category" /\ sentence[1].cat = "Done"
       /\ sentence[2].type = "Tag" /\ sentence[2].tag \in DOMAIN rc
    THEN {rc[sentence[2].tag]} ELSE {}

\* a task whose end leaves the queued commands where they are
DropTaskKeepsQueue ==
    /\ running_commands' = EmptyTable
    /\ UNCHANGED command_queue

\* the task is dropped: the table, the command receiver with what is
\* queued, and both socket halves go with it
DropTask ==
    /\ running_commands' = EmptyTable
    /\ command_queue' = <<>>

\* a loop that is left as soon as process_sentence returns an error
SentenceDoneLeavesLoop(r, o) ==
    /\ o.send.some => CanSend(o.send.val[1])
    /\ offset' = offset + r.inc
    /\ running_commands' = o.rc
    /\ sent' = IF o.send.some
               THEN [sent EXCEPT ![o.send.val[1]] = Append(@, o.send.val[2])]
               ELSE sent
    /\ running' = IF o.err # "none" THEN FALSE ELSE running
    /\ pc' = IF o.err # "none" THEN "shutdown" ELSE pc
    /\ done_chans' = done_chans \cup DoneChannel(r.words, running_commands)
    /\ serr' = IF o.err # "none" /\ ~serr.active
               THEN Snap("sentence", E_Protocol(o.err)) ELSE serr
    /\ UNCHANGED <<packet_buf, packet_cap, command_queue, err, ret, snap>>

\* a result put before the results the channel already holds
SentenceDoneJumpsQueue(r, o) ==
    /\ o.send.some => CanSend(o.send.val[1])
    /\ offset' = offset + r.inc
    /\ running_commands' = o.rc
    /\ sent' = IF o.send.some
               THEN [sent EXCEPT ![o.send.val[1]] = <<o.send.val[2]>> \o @]
               ELSE sent
    /\ running' = IF o.err # "none" THEN FALSE ELSE running
    /\ done_chans' = done_chans \cup DoneChannel(r.words, running_commands)
    /\ serr' = IF o.err # "none" /\ ~serr.active
               THEN Snap("sentence", E_Protocol(o.err)) ELSE serr
    /\ UNCHANGED <<pc, packet_buf, packet_cap, command_queue, err, ret, snap>>

\* device.rs:138-144: a sentence was parsed, o is what process_sentence
\* did with it; the send inside it completes when the channel has room
SentenceDone(r, o) ==
    /\ o.send.some => CanSend(o.send.val[1])
    /\ offset' = offset + r.inc
    /\ running_commands' = o.rc
    /\ sent' = IF o.send.some
               THEN [sent EXCEPT ![o.send.val[1]] = Append(@, o.send.val[2])]
               ELSE sent
    /\ running' = IF o.err # "none" THEN FALSE ELSE running
    /\ done_chans' = done_chans \cup DoneChannel(r.words, running_commands)
    /\ serr' = IF o.err # "none" /\ ~serr.active
               THEN Snap("sentence", E_Protocol(o.err)) ELSE serr
    /\ UNCHANGED <<pc, packet_buf, packet_cap, command_queue, err, ret, snap>>

\* device.rs:137-157: r is next_sentence(&packet_buf[offset..])
ParseOn(r) ==
    CASE r.kind = "Ok" ->
           \E o \in {process_sentence(r.words, running_commands, rx_dropped)} :
               SentenceDone(r, o)
      [] r.kind = "Err" /\ r.err = "Incomplete" ->
           \* split_off(offset) gives a Vec without spare capacity,
           \* clear() keeps the capacity (device.rs:146-150)
           /\ packet_buf' = IF offset < Len(packet_buf)
                            THEN Skip(packet_buf, offset) ELSE <<>>
           /\ packet_cap' = IF offset < Len(packet_buf)
                            THEN Len(packet_buf) - offset ELSE packet_cap
           /\ pc' = IF running THEN "select" ELSE "shutdown"
           /\ UNCHANGED <<offset, running_commands, sent, running,
                          done_chans, serr, command_queue, err, ret, snap>>
      [] r.kind = "Err" /\ r.err # "Incomplete" ->
           /\ StartNotify(E_Protocol(r.err), "parse")
           /\ UNCHANGED <<offset, running_commands, sent, running,
                          done_chans, serr, command_queue, packet_buf,
                          packet_cap>>
      [] r.kind = "Panic" ->
           /\ pc' = "panicked"
           /\ DropTask
           /\ UNCHANGED <<offset, sent, running, done_chans, serr, err,
                          ret, snap, packet_buf, packet_cap>>

\* one iteration of the inner loop (device.rs:136-158)
ParseStep ==
    /\ pc = "parse"
    /\ \E r \in {next_sentence(Skip(packet_buf, offset))} : ParseOn(r)
    /\ UNCHANGED <<held, queue, next_tag, nalloc, connect_result, handle_alive,
                   wire, nsent, sock_ok, tx_log, ncmd, taken, rx_dropped,
                   failed_calls>>
    /\ UnchangedCalls /\ UnchangedFixed

\* the entries the drain can yield next: HashMap::drain yields the
\* entries in the order of the table's buckets, which the hasher's random
\* keys decide, so any entry can come next; an entry that was yielded and
\* whose send is awaited is the only one the drain goes on with
DrainNext == IF queue = <<>> THEN DOMAIN running_commands ELSE {queue[1]}

\* a drain that drops each entry without sending the error
NotifyStepSkips ==
    /\ pc = "notify"
    /\ \E t \in DrainNext :
         running_commands' = Remove(running_commands, t)
    /\ queue' = <<>>
    /\ UNCHANGED <<pc, running, packet_buf, packet_cap, offset, held,
                   command_queue, next_tag, nalloc, connect_result,
                   handle_alive, err, ret, wire, nsent, sock_ok, tx_log, ncmd,
                   sent, taken, rx_dropped, failed_calls>>
    /\ UnchangedGhost /\ UnchangedCalls /\ UnchangedFixed

\* notify_error (device.rs:209-218): one entry of the drain.  The drain
\* yields an entry and the send to its channel is awaited: it completes
\* at once when the channel has room or its receiver is gone, and
\* otherwise the task waits on this entry, with the entries behind it
\* still to come, until the receiver takes a result or is dropped.  The
\* entry stays in the model's table until its send has completed.
NotifyStep ==
    /\ pc = "notify"
    /\ \E t \in DrainNext :
         LET c == running_commands[t] IN
         IF CanSend(c)
         THEN /\ sent' = IF rx_dropped[c] THEN sent
                         ELSE [sent EXCEPT
                                 ![c] = Append(@, process_error(err))]
              /\ running_commands' = Remove(running_commands, t)
              /\ queue' = <<>>
         ELSE /\ queue = <<>>
              /\ queue' = <<t>>
              /\ UNCHANGED <<sent, running_commands>>
    /\ UNCHANGED <<pc, running, packet_buf, packet_cap, offset, held,
                   command_queue, next_tag, nalloc, connect_result,
                   handle_alive, err, ret, wire, nsent, sock_ok, tx_log, ncmd,
                   taken, rx_dropped, failed_calls>>
    /\ UnchangedGhost /\ UnchangedCalls /\ UnchangedFixed

\* the send notify_error awaits cannot complete
DrainWaits ==
    pc = "notify" /\ queue # <<>> /\ ~CanSend(running_commands[queue[1]])

\* notify_error returns; the caller clears `running` (device.rs:132, 155,
\* 163, 178) and goes on: the inner loop iterates again, the outer loop
\* tests `running`
NotifyReturn ==
    /\ pc = "notify"
    /\ DOMAIN running_commands = {}
    /\ running' = FALSE
    /\ pc' = IF ret = "parse" THEN "parse" ELSE "shutdown"
    \* the end of the Err arm of the write drops the command's sender
    /\ held' = <<>>
    /\ UNCHANGED <<packet_buf, packet_cap, offset, queue, running_commands,
                   command_queue, next_tag, nalloc, connect_result,
                   handle_alive, err, ret, wire, nsent, sock_ok, tx_log>>
    /\ UnchangedCallers /\ UnchangedGhost /\ UnchangedFixed

\* the calls that wait for room and have been given it: a place in the
\* queue is theirs although the command is not yet in it
RoomGiven == Cardinality({i \in 1..Len(waiters) : waiters[i].ready})
\* places of the command queue that nobody has taken (device.rs:89)
FreeRoom == QueueCapacity - Len(command_queue) - RoomGiven
\* recv() returns a command, or a waiting call is dropped with room given
\* to it: the room goes to the call that has waited longest without room
Grant(ws) ==
    IF \A i \in 1..Len(ws) : ws[i].ready THEN ws
    ELSE [ws EXCEPT ![CHOOSE i \in 1..Len(ws) :
                         ~ws[i].ready /\ \A j \in 1..(i - 1) : ws[j].ready]
                     .ready = TRUE]

\* a command arm of a select that is not biased: it may be taken while a
\* read is ready
SelectCommandUnbiased ==
    /\ pc = "select"
    /\ command_queue # <<>>
    /\ held' = <<Head(command_queue)>>
    /\ UNCHANGED queue
    /\ command_queue' = Tail(command_queue)
    /\ waiters' = Grant(waiters)
    /\ pc' = "write"
    /\ UNCHANGED <<running, packet_buf, packet_cap, offset, running_commands,
                   next_tag, nalloc, connect_result, handle_alive, err, ret,
                   wire, nsent, sock_ok, tx_log>>
    /\ UNCHANGED <<ncmd, created, call_tag, dropped_calls, sent, taken,
                   rx_dropped, failed_calls>>
    /\ UnchangedGhost /\ UnchangedFixed

\* the command arm with a command received (device.rs:167-168): recv()
\* takes the command at the front out of the queue.  The select is
\* biased, so the arm is reached when the read is not ready.
SelectCommand ==
    /\ pc = "select"
    /\ wire = <<>>
    /\ command_queue # <<>>
    /\ held' = <<Head(command_queue)>>
    /\ UNCHANGED queue
    /\ command_queue' = Tail(command_queue)
    /\ waiters' = Grant(waiters)
    /\ pc' = "write"
    /\ UNCHANGED <<running, packet_buf, packet_cap, offset, running_commands,
                   next_tag, nalloc, connect_result, handle_alive, err, ret,
                   wire, nsent, sock_ok, tx_log>>
    /\ UNCHANGED <<ncmd, created, call_tag, dropped_calls, sent, taken,
                   rx_dropped, failed_calls>>
    /\ UnchangedGhost /\ UnchangedFixed

\* a command arm that registers the command before it looks at the result
\* of the write
WriteCommandRegistersFirst ==
    /\ pc = "write"
    /\ tx_log' = Append(tx_log, Write("command", held[1].tag))
    /\ held' = IF sock_ok THEN <<>> ELSE held
    /\ UNCHANGED queue
    /\ running_commands' = Insert(running_commands, held[1].tag, held[1].chan)
    /\ IF sock_ok
       THEN pc' = "select" /\ UNCHANGED <<err, ret, snap>>
       ELSE StartNotify(E_Io, "write")
    /\ UNCHANGED <<running, packet_buf, packet_cap, offset, command_queue,
                   next_tag, nalloc, connect_result, handle_alive, wire,
                   nsent, sock_ok, serr, done_chans>>
    /\ UnchangedCallers /\ UnchangedFixed

\* tcp_tx.write_all(&data).await has returned (device.rs:170-180): the
\* command is registered when it was written (insert moves its sender
\* into the table), the table is told of the error when it was not.  In
\* the Err arm the sender stays bound to response_queue while
\* notify_error runs; it is dropped where the arm ends (NotifyReturn).
WriteCommand ==
    /\ pc = "write"
    /\ tx_log' = Append(tx_log, Write("command", held[1].tag))
    /\ UNCHANGED queue
    /\ IF sock_ok
       THEN /\ running_commands' =
                   Insert(running_commands, held[1].tag, held[1].chan)
            /\ held' = <<>>
            /\ pc' = "select"
            /\ UNCHANGED <<err, ret, snap>>
       ELSE /\ StartNotify(E_Io, "write")
            /\ UNCHANGED <<running_commands, held, queue>>
    /\ UNCHANGED <<running, packet_buf, packet_cap, offset, command_queue,
                   next_tag, nalloc, connect_result, handle_alive, wire,
                   nsent, sock_ok, serr, done_chans>>
    /\ UnchangedCallers /\ UnchangedFixed

\* a closed arm that does not wait for the queue to be empty
SelectClosedEarly ==
    /\ pc = "select"
    /\ wire = <<>>
    /\ ~handle_alive
    /\ pc' = "cancel"
    /\ snap' = Snap("closed", E_None)
    /\ UNCHANGED <<running, packet_buf, packet_cap, offset, held, queue,
                   running_commands, command_queue, next_tag, nalloc,
                   connect_result, handle_alive, err, ret, wire, nsent,
                   sock_ok, tx_log, serr, done_chans>>
    /\ UnchangedCallers /\ UnchangedFixed

\* the command arm with the queue closed and empty (device.rs:182-185)
SelectClosed ==
    /\ pc = "select"
    /\ wire = <<>>
    /\ command_queue = <<>>
    /\ ~handle_alive
    /\ pc' = "cancel"
    /\ snap' = Snap("closed", E_None)
    /\ UNCHANGED <<running, packet_buf, packet_cap, offset, held, queue,
                   running_commands, command_queue, next_tag, nalloc,
                   connect_result, handle_alive, err, ret, wire, nsent,
                   sock_ok, tx_log, serr, done_chans>>
    /\ UnchangedCallers /\ UnchangedFixed

\* a drain that drops each entry without writing its cancel command
CancelStepSilent ==
    /\ pc = "cancel"
    /\ \E t \in DOMAIN running_commands :
         running_commands' = Remove(running_commands, t)
    /\ UNCHANGED <<pc, running, packet_buf, packet_cap, offset, held, queue,
                   command_queue, next_tag, nalloc, connect_result,
                   handle_alive, err, ret, wire, nsent, sock_ok, tx_log>>
    /\ UnchangedCallers /\ UnchangedGhost /\ UnchangedFixed

\* one entry of the drain of device.rs:185-188
CancelStep ==
    /\ pc = "cancel"
    /\ \E t \in DOMAIN running_commands :
         /\ tx_log' = Append(tx_log, Write("cancel", t))
         /\ running_commands' = Remove(running_commands, t)
    /\ UNCHANGED <<pc, running, packet_buf, packet_cap, offset, held, queue,
                   command_queue, next_tag, nalloc, connect_result,
                   handle_alive, err, ret, wire, nsent, sock_ok>>
    /\ UnchangedCallers /\ UnchangedGhost /\ UnchangedFixed

\* device.rs:189
CancelReturn ==
    /\ pc = "cancel"
    /\ DOMAIN running_commands = {}
    /\ running' = FALSE
    /\ pc' = "shutdown"
    /\ UNCHANGED <<packet_buf, packet_cap, offset, held, queue,
                   running_commands, command_queue, next_tag, nalloc,
                   connect_result, handle_alive, err, ret, wire, nsent,
                   sock_ok, tx_log>>
    /\ UnchangedCallers /\ UnchangedGhost /\ UnchangedFixed

\* device.rs:195-197: the shutdown attempt, then the task ends
Shutdown ==
    /\ pc = "shutdown"
    /\ tx_log' = Append(tx_log, Write("shutdown", 0))
    /\ pc' = "exited"
    /\ DropTask
    /\ UNCHANGED <<running, packet_buf, packet_cap, offset, held, queue,
                   next_tag, nalloc, connect_result, handle_alive, err, ret,
                   wire, nsent, sock_ok>>
    /\ UnchangedCallers /\ UnchangedGhost /\ UnchangedFixed

(***************************************************************************)
(* The peer and the socket.                                                *)
(***************************************************************************)
Connected == pc \notin {"connect", "failed", "exited", "panicked"}
WireOpen  == \A i \in 1..Len(wire) : wire[i].kind = "data"

UnchangedTask ==
    UNCHANGED <<pc, running, packet_buf, packet_cap, offset, held, queue,
                running_commands, err, ret, connect_result, tx_log>>

PeerSend ==
    /\ Connected /\ WireOpen
    /\ nsent < MaxChunks
    /\ Len(wire) < MaxWire
    /\ \E bytes \in menu : wire' = Append(wire, Data(bytes))
    /\ nsent' = nsent + 1
    /\ UnchangedTask /\ UnchangedCallers /\ UnchangedGhost
    /\ UNCHANGED <<command_queue, next_tag, nalloc, handle_alive, sock_ok>>
    /\ UnchangedFixed

\* the peer closes the connection: reads return 0 once the data is read
PeerClose ==
    /\ Connected /\ WireOpen
    /\ wire' = Append(wire, Eof)
    /\ UnchangedTask /\ UnchangedCallers /\ UnchangedGhost
    /\ UNCHANGED <<command_queue, next_tag, nalloc, handle_alive, sock_ok,
                   nsent>>
    /\ UnchangedFixed

\* the connection breaks: reads fail once the data is read
PeerReset ==
    /\ Connected /\ WireOpen
    /\ wire' = Append(wire, ReadError)
    /\ UnchangedTask /\ UnchangedCallers /\ UnchangedGhost
    /\ UNCHANGED <<command_queue, next_tag, nalloc, handle_alive, sock_ok,
                   nsent>>
    /\ UnchangedFixed

\* writes to the socket fail from now on
SocketBreak ==
    /\ pc \notin {"failed", "exited", "panicked"}
    /\ sock_ok
    /\ sock_ok' = FALSE
    /\ UnchangedTask /\ UnchangedCallers /\ UnchangedGhost
    /\ UNCHANGED <<command_queue, next_tag, nalloc, handle_alive, wire, nsent>>
    /\ UnchangedFixed

(***************************************************************************)
(* The callers.                                                            *)
(***************************************************************************)
\* the command receiver is gone: the task has ended
QueueClosed == pc \in {"exited", "panicked"}

\* the sequence s without its i-th element
Without(s, i) == SubSeq(s, 1, i - 1) \o SubSeq(s, i + 1, Len(s))

\* the calls of send_command that have taken a tag and not returned
InFlight ==
    {created[i].chan : i \in 1..Len(created)}
        \cup {waiters[i].chan : i \in 1..Len(waiters)}
\* the calls that returned a stream to their caller
Returned == (1..ncmd) \ (InFlight \cup failed_calls \cup dropped_calls)
\* calls by callers that drop the stream, between the tag and the send
DetachedCreated ==
    Cardinality({i \in 1..Len(created) : created[i].chan = Detached})

\* a create_command that reads the tag counter without advancing it
CreateCommandReusesTag ==
    /\ connect_result.kind = "Ok"
    /\ handle_alive
    /\ ncmd < MaxCmds
    /\ nalloc < MaxAlloc
    /\ ncmd' = ncmd + 1
    /\ nalloc' = nalloc + 1
    /\ UNCHANGED next_tag
    /\ created' = Append(created, [tag |-> next_tag, chan |-> ncmd + 1])
    /\ call_tag' = [call_tag EXCEPT ![ncmd + 1] = next_tag]
    /\ UNCHANGED <<waiters, dropped_calls, sent, taken, rx_dropped,
                   failed_calls>>
    /\ UnchangedTask /\ UnchangedGhost
    /\ UNCHANGED <<command_queue, handle_alive, wire, nsent, sock_ok>>
    /\ UnchangedFixed

\* send_command up to the command it builds (device.rs:50): create_command
\* (device.rs:38-44) takes the tag, the builder closure has returned.  The
\* command is not in the queue yet.
CreateCall(limit) ==
    /\ connect_result.kind = "Ok"
    /\ handle_alive
    /\ ncmd < limit
    /\ nalloc < MaxAlloc
    /\ ncmd' = ncmd + 1
    /\ nalloc' = nalloc + 1
    /\ next_tag' = (next_tag + 1) % TagModulus
    /\ created' = Append(created, [tag |-> next_tag, chan |-> ncmd + 1])
    /\ call_tag' = [call_tag EXCEPT ![ncmd + 1] = next_tag]
    /\ UNCHANGED <<waiters, dropped_calls, sent, taken, rx_dropped,
                   failed_calls>>
    /\ UnchangedTask /\ UnchangedGhost
    /\ UNCHANGED <<command_queue, handle_alive, wire, nsent, sock_ok>>
    /\ UnchangedFixed

CreateCommand == CreateCall(MaxCmds)

\* the same for a caller that will drop the returned stream at once
CreateDetached ==
    /\ connect_result.kind = "Ok"
    /\ handle_alive
    /\ ndetached + DetachedCreated < MaxDetached
    /\ nalloc < MaxAlloc
    /\ nalloc' = nalloc + 1
    /\ next_tag' = (next_tag + 1) % TagModulus
    /\ created' = Append(created, [tag |-> next_tag, chan |-> Detached])
    /\ UNCHANGED <<ncmd, call_tag, waiters, dropped_calls, sent, taken,
                   rx_dropped, failed_calls>>
    /\ UnchangedTask /\ UnchangedGhost
    /\ UNCHANGED <<command_queue, handle_alive, wire, nsent, sock_ok>>
    /\ UnchangedFixed

\* a send_command whose builder closure panics (device.rs:50): the tag
\* was taken by create_command before the closure ran, nothing is sent
BuilderPanics ==
    /\ connect_result.kind = "Ok"
    /\ handle_alive
    /\ nalloc < MaxAlloc
    /\ nalloc' = nalloc + 1
    /\ next_tag' = (next_tag + 1) % TagModulus
    /\ UnchangedTask /\ UnchangedCallers /\ UnchangedGhost
    /\ UNCHANGED <<command_queue, handle_alive, wire, nsent, sock_ok>>
    /\ UnchangedFixed

\* `.expect("Send command failed")` panics (device.rs:56): the call of
\* channel c returns no stream
Panics(c) ==
    /\ failed_calls' = IF c \in Chans THEN failed_calls \cup {c}
                       ELSE failed_calls
    /\ rx_dropped' = IF c \in Chans THEN [rx_dropped EXCEPT ![c] = TRUE]
                     ELSE rx_dropped

\* the send of device.rs:52-56 is polled for the first time for the i-th
\* call that has built its command: the receiver is gone and the call
\* panics, or there is room and the command is queued, or the call waits
Sending(i, closed, room) ==
    /\ created' = Without(created, i)
    /\ ndetached' = IF created[i].chan = Detached THEN ndetached + 1
                    ELSE ndetached
    /\ IF closed
       THEN /\ Panics(created[i].chan)
            /\ UNCHANGED <<command_queue, waiters>>
       ELSE IF room
       THEN /\ command_queue' = Append(command_queue, created[i])
            /\ UNCHANGED <<waiters, failed_calls, rx_dropped>>
       ELSE /\ waiters' = Append(waiters, [tag   |-> created[i].tag,
                                           chan  |-> created[i].chan,
                                           ready |-> FALSE])
            /\ UNCHANGED <<command_queue, failed_calls, rx_dropped>>
    /\ UNCHANGED <<ncmd, call_tag, dropped_calls, sent, taken>>
    /\ UnchangedTask /\ UnchangedGhost
    /\ UNCHANGED <<next_tag, nalloc, handle_alive, wire, nsent, sock_ok>>
    /\ UNCHANGED <<menu, fn_pc, fn_in, fn_out>>

\* a send_command that queues the command whether or not the task is
\* there to receive it
SendCommandQueuesAnyway ==
    \E i \in 1..Len(created) :
        created[i].chan \in Chans /\ Sending(i, FALSE, FreeRoom > 0)

\* send_command from the send on (device.rs:51-57)
SendCommand ==
    \E i \in 1..Len(created) :
        created[i].chan \in Chans /\ Sending(i, QueueClosed, FreeRoom > 0)

\* a send_command that does not wait for room in the command queue
SendDetachedOverfull ==
    \E i \in 1..Len(created) :
        created[i].chan = Detached /\ Sending(i, QueueClosed, TRUE)

\* send_command from the send on (device.rs:51-57) by a caller that drops
\* the returned stream at once: the command is queued like any other, its
\* results have no receiver
SendDetached ==
    \E i \in 1..Len(created) :
        created[i].chan = Detached /\ Sending(i, QueueClosed, FreeRoom > 0)

\* a call that waited is polled again (device.rs:52-56): it has been
\* given room and queues its command, or the receiver is gone and it
\* panics
ResumeSend ==
    /\ \E i \in 1..Len(waiters) :
         /\ QueueClosed \/ waiters[i].ready
         /\ waiters' = Without(waiters, i)
         /\ IF QueueClosed
            THEN /\ Panics(waiters[i].chan)
                 /\ UNCHANGED command_queue
            ELSE /\ command_queue' =
                        Append(command_queue, [tag  |-> waiters[i].tag,
                                               chan |-> waiters[i].chan])
                 /\ UNCHANGED <<failed_calls, rx_dropped>>
    /\ UNCHANGED <<ncmd, created, call_tag, dropped_calls, sent, taken>>
    /\ UnchangedTask /\ UnchangedGhost
    /\ UNCHANGED <<next_tag, nalloc, handle_alive, wire, nsent, sock_ok>>
    /\ UnchangedFixed

\* the future of a call that waits for room is dropped: the call is
\* abandoned.  Its tag stays taken; room that was given to it goes to the
\* call that has waited longest.
AbandonCall ==
    /\ \E i \in 1..Len(waiters) :
         /\ waiters' = IF waiters[i].ready THEN Grant(Without(waiters, i))
                       ELSE Without(waiters, i)
         /\ dropped_calls' = IF waiters[i].chan \in Chans
                             THEN dropped_calls \cup {waiters[i].chan}
                             ELSE dropped_calls
         /\ rx_dropped' = IF waiters[i].chan \in Chans
                          THEN [rx_dropped EXCEPT ![waiters[i].chan] = TRUE]
                          ELSE rx_dropped
    /\ UNCHANGED <<ncmd, created, call_tag, sent, taken, failed_calls>>
    /\ UnchangedTask /\ UnchangedGhost
    /\ UNCHANGED <<command_queue, next_tag, nalloc, handle_alive, wire,
                   nsent, sock_ok>>
    /\ UnchangedFixed

\* the last MikrotikDevice clone is dropped; a call borrows the device
\* until it returns
DropHandle ==
    /\ handle_alive
    /\ created = <<>> /\ waiters = <<>>
    /\ handle_alive' = FALSE
    /\ UnchangedTask /\ UnchangedCallers /\ UnchangedGhost
    /\ UNCHANGED <<command_queue, next_tag, nalloc, wire, nsent, sock_ok>>
    /\ UnchangedFixed

\* a caller drops the ReceiverStream of its command
DropReceiver ==
    /\ \E c \in Returned :
         /\ ~rx_dropped[c]
         /\ rx_dropped' = [rx_dropped EXCEPT ![c] = TRUE]
    /\ UnchangedTask /\ UnchangedGhost /\ UnchangedCalls
    /\ UNCHANGED <<command_queue, next_tag, nalloc, handle_alive, wire, nsent,
                   sock_ok, ncmd, sent, taken, failed_calls>>
    /\ UnchangedFixed

\* a caller takes the next result from its stream
TakeResult ==
    /\ \E c \in Returned :
         /\ ~rx_dropped[c]
         /\ taken[c] < Len(sent[c])
         /\ taken' = [taken EXCEPT ![c] = @ + 1]
    /\ UnchangedTask /\ UnchangedGhost /\ UnchangedCalls
    /\ UNCHANGED <<command_queue, next_tag, nalloc, handle_alive, wire, nsent,
                   sock_ok, ncmd, sent, rx_dropped, failed_calls>>
    /\ UnchangedFixed

Task ==
    \/ SelectRead \/ ParseStep \/ NotifyStep \/ NotifyReturn
    \/ SelectCommand \/ WriteCommand \/ SelectClosed \/ CancelStep
    \/ CancelReturn \/ Shutdown

Next ==
    \/ ConnectFails \/ WriteLogin \/ LoginRead
    \/ Task
    \/ PeerSend \/ PeerClose \/ PeerReset \/ SocketBreak
    \/ CreateCommand \/ SendCommand
    \/ DropHandle \/ DropReceiver \/ TakeResult

Init == Start(MenuCore)
Spec == Init /\ [][Next]_vars

\* The specifications below start with another menu and take the steps of
\* some of the disjuncts of Next: each is the program with one kind of
\* peer and one kind of caller.

\* sentences one and several to a chunk, from a peer that sends, closes or
\* resets the connection, to callers that keep the handle and may drop
\* their streams
InitRoute == Start(MenuRoute)
NextRoute ==
    \/ ConnectFails \/ WriteLogin \/ LoginRead
    \/ SelectRead \/ ParseStep \/ NotifyStep \/ NotifyReturn
    \/ SelectCommand \/ WriteCommand \/ Shutdown
    \/ PeerSend \/ PeerClose \/ PeerReset
    \/ CreateCommand \/ SendCommand \/ DropReceiver
SpecRoute == InitRoute /\ [][NextRoute]_vars

\* the same chunks with every failure of the connection and the drop of
\* the handle, to callers that keep their streams and take nothing from
\* them while the task runs
NextTask ==
    \/ ConnectFails \/ WriteLogin \/ LoginRead
    \/ Task
    \/ PeerSend \/ PeerClose \/ PeerReset \/ SocketBreak
    \/ CreateCommand \/ SendCommand
    \/ DropHandle
SpecTask == InitRoute /\ [][NextTask]_vars

\* a peer that sends and closes, with callers that keep the handle,
\* submit, take results and drop their streams
NextSession ==
    \/ ConnectFails \/ WriteLogin \/ LoginRead
    \/ SelectRead \/ ParseStep \/ NotifyStep \/ NotifyReturn
    \/ SelectCommand \/ WriteCommand \/ Shutdown
    \/ PeerSend \/ PeerClose
    \/ CreateCommand \/ SendCommand \/ DropReceiver \/ TakeResult

InitTrap == Start(MenuTrap)
SpecTrap == InitTrap /\ [][NextSession]_vars

InitErr == Start(MenuErr)
SpecErr == InitErr /\ [][NextSession]_vars
\* the task is scheduled whenever it can take a step (tokio::spawn)
FairErr == InitErr /\ [][Next]_vars /\ WF_vars(Task)

InitLogin == Start(MenuLogin)
SpecLogin == InitLogin /\ [][Next]_vars

\* replies and traps for callers that may have stopped listening
InitDrop == Start(MenuDrop)
SpecDrop == InitDrop /\ [][NextSession]_vars

\* several results for a tag in one chunk
InitOrder == Start(MenuOrder)
SpecOrder == InitOrder /\ [][NextSession]_vars

\* a connection that stays up, with more callers than the command queue
\* has room for; a caller starts its call when no other call is between
\* create_command and the queue
InitQueue == Start(MenuQueue)
NextQueue ==
    \/ ConnectFails \/ WriteLogin \/ LoginRead
    \/ SelectRead \/ ParseStep \/ SelectCommand \/ WriteCommand
    \/ PeerSend
    \/ DetachedCreated = 0 /\ CreateDetached
    \/ SendDetached \/ ResumeSend \/ AbandonCall
SpecQueue == InitQueue /\ [][NextQueue]_vars

\* more results for a command than its channel holds, from a peer that
\* sends and closes, to callers that make their calls one after the
\* other, take results and drop their streams
InitFull == Start(MenuFull)
NextFull ==
    \/ ConnectFails \/ WriteLogin \/ LoginRead
    \/ SelectRead \/ ParseStep \/ NotifyStep \/ NotifyReturn
    \/ SelectCommand \/ WriteCommand \/ Shutdown
    \/ PeerSend \/ PeerClose
    \/ created = <<>> /\ CreateCommand
    \/ SendCommand \/ DropReceiver \/ TakeResult
SpecFull == InitFull /\ [][NextFull]_vars

\* the drain of a table of several tags, begun by EOF, by a read error
\* or by the failed write of a further command, with the channel of one
\* tag filled or not; the callers make their calls one after the other,
\* drop their streams at any moment, and take a result only when the
\* drain waits for room in a channel
InitDrain == Start(MenuDrain)
NextDrain ==
    \/ ConnectFails \/ WriteLogin \/ LoginRead
    \/ SelectRead \/ ParseStep \/ NotifyStep \/ NotifyReturn
    \/ SelectCommand \/ WriteCommand \/ Shutdown
    \/ PeerSend \/ PeerClose \/ PeerReset \/ SocketBreak
    \/ created = <<>> /\ CreateCall(MaxDrainCmds)
    \/ SendCommand \/ DropReceiver
    \/ DrainWaits /\ TakeResult
SpecDrain == InitDrain /\ [][NextDrain]_vars

\* a connection that lives long enough for the tag counter to wrap, with
\* a peer that answers the login and sends nothing more: the calls whose
\* builder panics are made while one call is still to come and the
\* commands of the others are all in the table
InitWrap == Start(MenuWrap)
LapReady ==
    ncmd = MaxCmds - 1 /\ Cardinality(DOMAIN running_commands) = ncmd
NextWrap ==
    \/ ConnectFails \/ WriteLogin \/ LoginRead
    \/ SelectCommand \/ WriteCommand
    \/ pc = "login" /\ PeerSend
    \/ CreateCommand \/ SendCommand
    \/ LapReady /\ BuilderPanics
SpecWrap == InitWrap /\ [][NextWrap]_vars

(***************************************************************************)
(* Properties of the connection task.                                      *)
(***************************************************************************)
\* every sender of channel c is gone: the receiver's stream ends once it
\* has taken what was sent
Closed(c) ==
    /\ c \notin Channels(running_commands)
    /\ \A i \in 1..Len(command_queue) : command_queue[i].chan # c
    /\ \A i \in 1..Len(held) : held[i].chan # c

\* the step processes a sentence the parser found in the read buffer
SentenceStep == pc = "parse" /\ offset' # offset
TagsOf(words)  == SelectSeq(words, LAMBDA w : w.type = "Tag")
AttrsOf(words) == SelectSeq(words, LAMBDA w : w.type = "Attribute")
\* a sentence of category cat whose other words are tags and attributes,
\* with a tag that is in the table and whose receiver is there
SentenceFor(words, cat) ==
    /\ Len(words) >= 1 /\ words[1] = WCategory(cat)
    /\ \A i \in 2..Len(words) : words[i].type \in {"Tag", "Attribute"}
    /\ TagsOf(words) # <<>>
    /\ TagsOf(words)[Len(TagsOf(words))].tag \in DOMAIN running_commands
    /\ ~rx_dropped[running_commands[TagsOf(words)[Len(TagsOf(words))].tag]]
ChannelFor(words) ==
    running_commands[TagsOf(words)[Len(TagsOf(words))].tag]
Last(q) == q[Len(q)]

\* C1: when the loop reads EOF or a read error, every tag in the table at
\* that moment gets exactly one error result (ConnectionClosed for EOF, Io
\* for a read error) on its channel, unless its receiver is gone, no other
\* channel gets anything, the table is left empty and the channels of
\* those tags are closed.
C1_ReadBroadcast ==
    (snap.active /\ snap.from = "read") =>
        /\ pc \in {"notify", "shutdown", "exited"}
        /\ wire # <<>> /\ Head(wire).kind \in {"eof", "err"}
        /\ snap.error = IF Head(wire).kind = "eof" THEN E_ConnectionClosed
                        ELSE E_Io
        /\ \A c \in Chans :
             IF c \in Channels(snap.table)
             THEN /\ \/ sent[c] = snap.sent[c]
                     \/ sent[c] = Append(snap.sent[c], process_error(snap.error))
                  /\ c \in Channels(running_commands) => sent[c] = snap.sent[c]
                  /\ (c \notin Channels(running_commands) /\ ~rx_dropped[c]) =>
                         sent[c] = Append(snap.sent[c], process_error(snap.error))
             ELSE sent[c] = snap.sent[c]
        /\ pc # "notify" =>
             /\ ~running
             /\ running_commands = EmptyTable
             /\ \A c \in Channels(snap.table) : Closed(c)

\* EOF was read with two tags in the table, one of which had as many
\* replies before as its channel holds; the drain waited for its receiver
\* to take one; both got the error and the loop is left
C1_Witness ==
    /\ snap.active /\ snap.from = "read" /\ snap.error = E_ConnectionClosed
    /\ pc = "shutdown"
    /\ DOMAIN snap.table = {1, 2}
    /\ Len(snap.sent[snap.table[1]]) = ChannelCapacity
    /\ taken[snap.table[1]] = 1
    /\ \A c \in Channels(snap.table) :
         sent[c] = Append(snap.sent[c], process_error(E_ConnectionClosed))

\* C2: once a Done for a tag of the table is processed, the tag's entry is
\* not in the table, and no result of any kind is put on the channel that
\* was registered for it in any later step.
C2_DoneEndsDelivery ==
    [][/\ \A c \in done_chans' : c \notin Channels(running_commands')
       /\ \A c \in done_chans : sent'[c] = sent[c]]_vars

\* after the Done for tag 1 a further sentence for tag 1 arrived and was
\* refused: the tag was not in the table any more
C2_Witness ==
    /\ 1 \in done_chans
    /\ serr.active /\ serr.error = E_Protocol("UnknownTag")
    /\ 1 \notin DOMAIN serr.table

\* C3: a Reply with a tag of the table, whose receiver is there, puts
\* exactly one result on the channel of that tag and nothing on any other;
\* the result is built from the sentence's attribute words as (key,
\* optional value) pairs in their order, and the table is unchanged.
C3_ReplyDelivers ==
    [][LET r == next_sentence(Skip(packet_buf, offset)) IN
       (SentenceStep /\ r.kind = "Ok" /\ SentenceFor(r.words, "Reply")) =>
           /\ sent' = [sent EXCEPT ![ChannelFor(r.words)] =
                         Append(@, parse_message(
                             [i \in 1..Len(AttrsOf(r.words)) |->
                                 <<AttrsOf(r.words)[i].key,
                                   AttrsOf(r.words)[i].value>>]))]
           /\ running_commands' = running_commands]_vars

\* the reply [!re, .tag=1, =name=ether1, =re] was delivered to the first
\* command and to it alone, with both commands in the table
C3_Witness ==
    /\ DOMAIN running_commands = {1, 2}
    /\ sent[running_commands[1]] =
           <<parse_message(<<<<B_name, Some(B_ether1)>>, <<B_re, None>>>>)>>
    /\ sent[running_commands[2]] = <<>>

\* the attributes of a trap: the usable categories and the messages
UsableCategories(words) ==
    SelectSeq(words, LAMBDA w : /\ w.type = "Attribute" /\ w.key = B_category
                                /\ w.value.some
                                /\ TrapCategory_try_from(w.value.val).some)
Messages(words) ==
    SelectSeq(words, LAMBDA w : w.type = "Attribute" /\ w.key = B_message)
HasMessage(words) ==
    Messages(words) # <<>> /\ Last(Messages(words)).value.some
\* no attribute but =category=<value> and =message
OnlyTrapAttributes(words) ==
    \A i \in 1..Len(words) :
        words[i].type = "Attribute" =>
            \/ words[i].key = B_category /\ words[i].value.some
            \/ words[i].key = B_message
TrapAnswer(words) ==
    IF UsableCategories(words) = <<>>
    THEN process_error(E_Protocol("MissingCategoryInTrap"))
    ELSE IF ~HasMessage(words)
    THEN process_error(E_Protocol("MissingMessageInTrap"))
    ELSE process_trap(
             TrapCategory_try_from(Last(UsableCategories(words)).value.val).val,
             Last(Messages(words)).value.val)

\* C4 as stated: a Trap for a registered tag that lacks a usable category
\* or lacks a message puts a protocol-error result (missing category or
\* missing message) on the tag's channel, and a trap result is delivered
\* only when both were found.
C4_MissingDelivered ==
    [][LET r == next_sentence(Skip(packet_buf, offset)) IN
       (SentenceStep /\ r.kind = "Ok" /\ SentenceFor(r.words, "Trap")) =>
           /\ (UsableCategories(r.words) = <<>> \/ ~HasMessage(r.words)) =>
                 /\ Len(sent'[ChannelFor(r.words)]) =
                        Len(sent[ChannelFor(r.words)]) + 1
                 /\ Last(sent'[ChannelFor(r.words)]).kind = "Error"
                 /\ Last(sent'[ChannelFor(r.words)]).error \in
                        {E_Protocol("MissingCategoryInTrap"),
                         E_Protocol("MissingMessageInTrap")}
           /\ \A c \in Chans :
                 (sent'[c] # sent[c] /\ Last(sent'[c]).kind = "Trap") =>
                     UsableCategories(r.words) # <<>> /\ HasMessage(r.words)]_vars

\* C4: a Trap for a registered tag whose attributes are only
\* =category=<value> and =message puts exactly one result on the tag's
\* channel: the missing-category error when no category value is usable,
\* else the missing-message error when the message has no value, else the
\* trap result.  A Trap with any other attribute, or with =category
\* without a value, is refused: nothing is delivered and the loop is told
\* to stop.
C4_TrapDelivers ==
    [][LET r == next_sentence(Skip(packet_buf, offset)) IN
       (SentenceStep /\ r.kind = "Ok" /\ SentenceFor(r.words, "Trap")) =>
           IF OnlyTrapAttributes(r.words)
           THEN sent' = [sent EXCEPT ![ChannelFor(r.words)] =
                           Append(@, TrapAnswer(r.words))]
           ELSE sent' = sent /\ ~running']_vars

\* the trap [!trap, .tag=1, =message=name], without a category, was
\* answered with the missing-category error on the channel of tag 1
C4_Witness ==
    /\ 1 \in DOMAIN running_commands
    /\ sent[running_commands[1]] =
           <<process_error(E_Protocol("MissingCategoryInTrap"))>>

\* C18 as stated: once a Trap that lacks its category or its message is
\* processed, the task stops the loop: the whole connection is torn down,
\* not only the offending tag affected.
C18_TrapMissingStops ==
    [][LET r == next_sentence(Skip(packet_buf, offset)) IN
       (/\ SentenceStep /\ r.kind = "Ok"
        /\ Len(r.words) >= 1 /\ r.words[1] = WCategory("Trap")
        /\ (UsableCategories(r.words) = <<>> \/ ~HasMessage(r.words))) =>
           ~running']_vars

\* C18: a Trap for a registered tag whose attributes are only
\* =category=<value> and =message, and that lacks a usable category or a
\* message value, touches the offending tag only: the protocol error is
\* put on that tag's channel, the loop keeps running, no error of the
\* sentence is raised and the table is unchanged.
C18_TrapMissingLocal ==
    [][LET r == next_sentence(Skip(packet_buf, offset)) IN
       (/\ SentenceStep /\ r.kind = "Ok" /\ SentenceFor(r.words, "Trap")
        /\ OnlyTrapAttributes(r.words)
        /\ (UsableCategories(r.words) = <<>> \/ ~HasMessage(r.words))) =>
           /\ running' = running /\ pc' = "parse"
           /\ serr' = serr /\ snap' = snap
           /\ running_commands' = running_commands
           /\ \A c \in Chans \ {ChannelFor(r.words)} : sent'[c] = sent[c]
           /\ Len(sent'[ChannelFor(r.words)]) =
                  Len(sent[ChannelFor(r.words)]) + 1
           /\ Last(sent'[ChannelFor(r.words)]).kind = "Error"
           /\ Last(sent'[ChannelFor(r.words)]).error.class = "Protocol"]_vars

\* the trap [!trap, =category=2, .tag=1], without a message, was answered
\* on the channel of tag 1, and the task is back at the select, running,
\* with the tag still in the table
C18_Witness ==
    /\ pc = "select" /\ running /\ ~serr.active /\ ~snap.active
    /\ 1 \in DOMAIN running_commands
    /\ sent[running_commands[1]] =
           <<process_error(E_Protocol("MissingMessageInTrap"))>>

\* a Done whose tag word names a tag that is not in the table
DoneForUnknown(words) ==
    /\ Len(words) >= 2 /\ words[1] = WCategory("Done")
    /\ words[2].type = "Tag" /\ words[2].tag \notin DOMAIN running_commands
\* a Reply or Trap that reaches the send with a tag that is not in the
\* table
DeliveryForUnknown(words) ==
    /\ Len(words) >= 1
    /\ words[1] \in {WCategory("Reply"), WCategory("Trap")}
    /\ \A i \in 2..Len(words) : words[i].type \in {"Tag", "Attribute"}
    /\ words[1] = WCategory("Trap") => OnlyTrapAttributes(words)
    /\ TagsOf(words) # <<>>
    /\ Last(TagsOf(words)).tag \notin DOMAIN running_commands

\* C19 as stated: a Done whose tag is not in the table is a protocol
\* error (unknown tag) that ends the connection, as a Reply or Trap for a
\* tag that is not in the table is.
C19_DoneUnknownStops ==
    [][LET r == next_sentence(Skip(packet_buf, offset)) IN
       (/\ SentenceStep /\ r.kind = "Ok"
        /\ (DoneForUnknown(r.words) \/ DeliveryForUnknown(r.words))) =>
           ~running']_vars

\* C19: a Done whose tag is not in the table is passed over: no error is
\* raised, the table and the channels are unchanged and the loop keeps
\* running.  A Reply or Trap for a tag that is not in the table is
\* refused with the unknown-tag error, which delivers nothing and stops
\* the loop.
C19_DoneUnknownIgnored ==
    [][LET r == next_sentence(Skip(packet_buf, offset)) IN
       /\ (SentenceStep /\ r.kind = "Ok" /\ DoneForUnknown(r.words)) =>
              /\ running' = running /\ pc' = "parse"
              /\ running_commands' = running_commands
              /\ sent' = sent /\ serr' = serr /\ snap' = snap
       /\ (SentenceStep /\ r.kind = "Ok" /\ DeliveryForUnknown(r.words)) =>
              /\ ~running'
              /\ running_commands' = running_commands
              /\ sent' = sent
              /\ serr'.active
              /\ ~serr.active =>
                     serr'.error = E_Protocol("UnknownTag")]_vars

\* with the first command in the table the peer sent a second !done for
\* tag 0, the tag of the login: the chunk was used up, nothing was touched
\* and the task is back at the select, running
C19_Witness ==
    /\ pc = "select" /\ running /\ ~serr.active /\ ~snap.active
    /\ nsent = 2 /\ wire = <<>> /\ packet_buf = <<>>
    /\ DOMAIN running_commands = {1} /\ ~rx_dropped[running_commands[1]]
    /\ done_chans = {}
    /\ \A c \in Chans : sent[c] = <<>>

\* a Reply or Trap that reaches the send, for a tag of the table whose
\* receiver is there, and the result it stands for
DeliveryFor(words) ==
    \/ SentenceFor(words, "Reply")
    \/ SentenceFor(words, "Trap") /\ OnlyTrapAttributes(words)
ResultOf(words) ==
    IF words[1] = WCategory("Reply")
    THEN parse_message([i \in 1..Len(AttrsOf(words)) |->
                           <<AttrsOf(words)[i].key, AttrsOf(words)[i].value>>])
    ELSE TrapAnswer(words)

\* C20: the results on the channel of a tag are those of the Reply and
\* Trap sentences for the tag in the order the sentences arrived: each
\* such sentence, while the receiver is there, puts its one result at the
\* end of the tag's channel, the loop puts no result on a channel
\* otherwise while it parses, and no step takes a result out of a channel
\* or changes the order of those it holds.
C20_ArrivalOrder ==
    [][LET r == next_sentence(Skip(packet_buf, offset)) IN
       /\ \A c \in Chans :
              /\ Len(sent'[c]) \in {Len(sent[c]), Len(sent[c]) + 1}
              /\ SubSeq(sent'[c], 1, Len(sent[c])) = sent[c]
              /\ taken'[c] \in {taken[c], taken[c] + 1}
       /\ (SentenceStep /\ r.kind = "Ok" /\ DeliveryFor(r.words)) =>
              sent' = [sent EXCEPT ![ChannelFor(r.words)] =
                          Append(@, ResultOf(r.words))]
       /\ (pc = "parse" /\ sent' # sent) =>
              SentenceStep /\ r.kind = "Ok" /\ DeliveryFor(r.words)]_vars

\* two replies and a trap for tag 1 arrived in one chunk, then the Done:
\* the channel holds the three results in the order of arrival
C20_Witness ==
    /\ 1 \in done_chans
    /\ sent[1] =
           <<parse_message(<<<<B_name, Some(B_ether1)>>, <<B_re, None>>>>),
             parse_message(<<<<B_name, Some(B_name)>>>>),
             process_trap(2, B_name)>>

\* the cancel commands written so far
Cancels == SelectSeq(tx_log, LAMBDA w : w.op = "cancel")
CancelledTags == {Cancels[i].tag : i \in 1..Len(Cancels)}

\* C5: when the command queue is closed with N tags in the table, the
\* task writes exactly N cancel commands, one for each tag of the table
\* and none for another tag, all before the shutdown of the socket is
\* attempted, and the table is empty afterwards.
C5_CancelsBeforeShutdown ==
    (snap.active /\ snap.from = "closed") =>
        /\ pc \in {"cancel", "shutdown", "exited"}
        /\ CancelledTags \subseteq DOMAIN snap.table
        /\ Cardinality(CancelledTags) = Len(Cancels)
        /\ pc = "cancel" =>
               DOMAIN running_commands = DOMAIN snap.table \ CancelledTags
        /\ pc # "cancel" =>
               /\ Len(Cancels) = Cardinality(DOMAIN snap.table)
               /\ running_commands = EmptyTable
        /\ \A i \in 1..Len(tx_log) :
               tx_log[i].op = "shutdown" => i = Len(tx_log) /\ pc = "exited"

\* the handle was dropped with two tags in the table: two cancel commands,
\* then the shutdown
C5_Witness ==
    /\ snap.active /\ snap.from = "closed"
    /\ DOMAIN snap.table = {1, 2}
    /\ pc = "exited"
    /\ Len(Cancels) = 2
    /\ Last(tx_log).op = "shutdown"

\* C6: on every termination path, once the task has decided to terminate
\* (its running flag is cleared) it leaves the loop, attempts the shutdown
\* of the socket and exits.  A task that crashed is left aside here.
C6_LeavesLoop ==
    (pc \in {"parse", "notify", "select", "cancel", "shutdown"} /\ ~running)
        ~> (pc \in {"exited", "panicked"})

\* C7: connect returns a handle only if the handshake read a sentence that
\* is exactly [Done, Tag]; when the first complete sentence is anything
\* else, when a read fails, or when the peer closes the socket first,
\* connect returns an error and no handle.
C7_HandleOnlyAfterDone ==
    [][LET chunk == Head(wire)
           n == ReadLen(Len(packet_buf), packet_cap, chunk)
           r == next_sentence(packet_buf \o SubSeq(chunk.bytes, 1, n))
           done == chunk.kind = "data" /\ r.kind = "Ok" /\ Len(r.words) = 2
                   /\ r.words[1] = WCategory("Done") /\ r.words[2].type = "Tag"
       IN  (pc = "login" /\ pc' # "login") =>
               /\ connect_result'.kind = "Ok" => done
               /\ (\/ chunk.kind \in {"eof", "err"}
                   \/ chunk.kind = "data" /\ r.kind = "Ok" /\ ~done) =>
                      connect_result'.kind = "Err" /\ ~handle_alive']_vars

\* C11: the table holds one entry per tag, and the channel of an entry is
\* that of the one command issued with the tag for as long as the entry is
\* in the table: no command is registered under a tag that is in the table
\* for another command, however many commands the connection has carried.
C11_OneOwnerPerTag ==
    [][\A t \in DOMAIN running_commands \cap DOMAIN running_commands' :
           running_commands'[t] = running_commands[t]]_vars

\* the writes of submitted commands so far
CommandWrites == SelectSeq(tx_log, LAMBDA w : w.op = "command")

\* C12: when the write of a newly submitted command fails, every tag in
\* the table at that moment gets exactly one Io error result on its
\* channel, unless its receiver is gone, no other channel gets anything,
\* the failing command's tag is not put into the table, the table is left
\* empty and the loop is left. The sender of the failing command is kept
\* until the errors are delivered and dropped then.
C12_WriteFailure ==
    (snap.active /\ snap.from = "write") =>
        /\ pc \in {"notify", "shutdown", "exited"}
        /\ snap.error = E_Io
        /\ CommandWrites # <<>> /\ ~Last(CommandWrites).ok
        /\ Last(CommandWrites).tag \notin DOMAIN snap.table
        /\ Last(CommandWrites).tag \notin DOMAIN running_commands
        /\ DOMAIN running_commands \subseteq DOMAIN snap.table
        /\ \A c \in Chans :
             IF c \in Channels(snap.table)
             THEN /\ c \in Channels(running_commands) => sent[c] = snap.sent[c]
                  /\ c \notin Channels(running_commands) =>
                         sent[c] = IF rx_dropped[c] /\ sent[c] = snap.sent[c]
                                   THEN snap.sent[c]
                                   ELSE Append(snap.sent[c], process_error(E_Io))
             ELSE sent[c] = snap.sent[c]
        /\ pc # "notify" => ~running /\ running_commands = EmptyTable
        /\ IF pc = "notify"
           THEN held # <<>> /\ held[1].tag = Last(CommandWrites).tag
           ELSE held = <<>>

\* the write of the third command failed with two commands in the table,
\* one of them with as many replies as its channel holds, and the drain
\* waited for its receiver to take one: both got the Io error, the third
\* got nothing and is not in the table, and the loop is left
C12_Witness ==
    /\ snap.active /\ snap.from = "write"
    /\ pc = "shutdown"
    /\ DOMAIN snap.table = {1, 2}
    /\ Len(snap.sent[snap.table[1]]) = ChannelCapacity
    /\ taken[snap.table[1]] = 1
    /\ Last(CommandWrites).tag = 3
    /\ \A c \in Channels(snap.table) :
         sent[c] = Append(snap.sent[c], process_error(E_Io))
    /\ \A c \in Chans \ Channels(snap.table) : sent[c] = <<>>

\* C13: once the task has ended, for whatever reason, a send_command can
\* still be begun, and when it comes to the send it does not wait for room
\* in the queue and fails: the command is not queued, the table is not
\* touched, and the caller gets no result stream, so the channel made for
\* the call never carries a result.
C13_SendAfterExit ==
    /\ [](\A c \in failed_calls :
             sent[c] = <<>> /\ rx_dropped[c] /\ Closed(c))
    /\ []((QueueClosed /\ connect_result.kind = "Ok" /\ handle_alive
             /\ ncmd < MaxCmds) => ENABLED CreateCommand)
    /\ []((QueueClosed /\ created # <<>>) => ENABLED SendCommand)
    /\ [][(QueueClosed /\ Len(created') < Len(created)) =>
             /\ command_queue' = command_queue
             /\ waiters' = waiters
             /\ running_commands' = running_commands
             /\ sent' = sent
             /\ \E i \in 1..Len(created) :
                    /\ created' = Without(created, i)
                    /\ failed_calls' = failed_calls \cup {created[i].chan}]_vars

\* the task ended after a Reply for a tag that was not in the table any
\* more; the send_command made after that failed
C13_Witness ==
    /\ pc = "exited"
    /\ serr.active /\ serr.error = E_Protocol("UnknownTag")
    /\ failed_calls = {2}
    /\ command_queue = <<>>

\* a Reply or Trap that reaches the send, for a tag of the table whose
\* receiver was dropped
DeliveryToDropped(words) ==
    /\ Len(words) >= 1
    /\ words[1] \in {WCategory("Reply"), WCategory("Trap")}
    /\ \A i \in 2..Len(words) : words[i].type \in {"Tag", "Attribute"}
    /\ words[1] = WCategory("Trap") => OnlyTrapAttributes(words)
    /\ TagsOf(words) # <<>>
    /\ Last(TagsOf(words)).tag \in DOMAIN running_commands
    /\ rx_dropped[running_commands[Last(TagsOf(words)).tag]]

\* C14: when the receiver of tag t's channel was dropped, a Reply or Trap
\* for t that reaches the delivery removes t from the table and does
\* nothing else: no error is raised, no channel gets a result, every
\* other entry of the table stays, and the loop goes on running.
C14_DroppedReceiver ==
    [][LET r == next_sentence(Skip(packet_buf, offset)) IN
       (SentenceStep /\ r.kind = "Ok" /\ DeliveryToDropped(r.words)) =>
           /\ running_commands' =
                  Remove(running_commands, Last(TagsOf(r.words)).tag)
           /\ sent' = sent
           /\ running' = running /\ pc' = "parse"
           /\ serr' = serr /\ snap' = snap]_vars

\* both commands were registered and the receiver of the first dropped; a
\* sentence for tag 1 then took its entry out of the table, the second
\* command's entry is there and the loop runs
C14_Witness ==
    /\ Len(CommandWrites) = 2 /\ \A i \in 1..2 : CommandWrites[i].ok
    /\ rx_dropped[1] /\ ~rx_dropped[2]
    /\ DOMAIN running_commands = {2}
    /\ done_chans = {} /\ ~snap.active /\ ~serr.active
    /\ running /\ pc = "select"
    /\ sent[1] = <<>> /\ sent[2] = <<>>

\* the tags whose command was written to the socket in full
WrittenTags ==
    {CommandWrites[i].tag : i \in {j \in 1..Len(CommandWrites) :
                                      CommandWrites[j].ok}}
FailedTags ==
    {CommandWrites[i].tag : i \in {j \in 1..Len(CommandWrites) :
                                      ~CommandWrites[j].ok}}

\* C21: a tag is in the table only if the bytes of its command were
\* written to the socket: a command waiting in the queue and a command
\* whose write failed are not in the table, and the entry is made in the
\* step of the successful write, in which no socket data is processed,
\* and in no other step.
C21_TableOnlyWritten ==
    /\ [](/\ DOMAIN running_commands \subseteq WrittenTags
          /\ DOMAIN running_commands \cap FailedTags = {}
          /\ \A i \in 1..Len(command_queue) :
                 /\ command_queue[i].chan \notin Channels(running_commands)
                 /\ command_queue[i].tag \notin DOMAIN running_commands
          /\ \A i \in 1..Len(held) :
                 /\ held[i].chan \notin Channels(running_commands)
                 /\ held[i].tag \notin DOMAIN running_commands
          /\ held # <<>> <=>
                 pc = "write" \/ (pc = "notify" /\ ret = "write"))
    /\ [][/\ Len(CommandWrites') > Len(CommandWrites) =>
                /\ held # <<>>
                /\ running_commands' =
                       IF Last(CommandWrites').ok
                       THEN Insert(running_commands, held[1].tag,
                                   held[1].chan)
                       ELSE running_commands
                /\ Last(CommandWrites').tag = held[1].tag
                /\ UNCHANGED <<packet_buf, offset, wire, sent>>
          /\ DOMAIN running_commands' \ DOMAIN running_commands # {} =>
                Len(CommandWrites') > Len(CommandWrites)]_vars

\* the first command is written and in the table; the second was
\* submitted and waits in the queue, out of the table
C21_Witness ==
    /\ DOMAIN running_commands = {1} /\ WrittenTags = {1}
    /\ Len(command_queue) = 1 /\ command_queue[1].tag = 2
    /\ pc = "parse"

\* the read buffer from the parse position on holds no complete sentence
NoSentenceLeft(buf) ==
    LET r == next_sentence(buf) IN r.kind = "Err" /\ r.err = "Incomplete"

\* C22: when the socket has something to read (data, EOF or an error) at
\* the select, the task takes the read arm even if a command is queued or
\* the queue is closed: no queued command is written, none is registered
\* and the cancel path is not entered in that iteration; and once data was
\* read nothing is written to the socket until the parse loop has routed
\* every complete sentence of the read buffer, which is when it leaves.
C22_SocketFirst ==
    /\ [][pc = "select" /\ wire # <<>> =>
              /\ tx_log' = tx_log
              /\ running_commands' = running_commands
              /\ Len(command_queue') >= Len(command_queue)
              /\ pc' \in {"select", "parse", "notify"}]_vars
    /\ [][pc = "parse" =>
              /\ tx_log' = tx_log
              /\ Len(command_queue') >= Len(command_queue)
              /\ pc' \in {"select", "shutdown"} =>
                     /\ NoSentenceLeft(Skip(packet_buf, offset))
                     /\ packet_buf' = Skip(packet_buf, offset)]_vars
C22_Witness ==
    /\ pc = "parse" /\ offset > 0 /\ offset = Len(packet_buf)
    /\ command_queue # <<>>
    /\ DOMAIN running_commands = {1} /\ Len(sent[1]) = 1

\* results sent on channel c that its receiver has not taken
Undelivered(c) == Len(sent[c]) - taken[c]
\* the channels the task waits for: the one the sentence at the parse
\* position has a result for, or those of the entries notify_error has
\* still to drain, when none of them has room
AwaitedBy(o) ==
    IF o.send.some /\ ~CanSend(o.send.val[1]) THEN {o.send.val[1]} ELSE {}
AwaitedAt(r) ==
    IF r.kind # "Ok" THEN {}
    ELSE UNION {AwaitedBy(o) :
                  o \in {process_sentence(r.words, running_commands,
                                          rx_dropped)}}
AwaitedChannels ==
    CASE pc = "parse" ->
           UNION {AwaitedAt(r) :
                    r \in {next_sentence(Skip(packet_buf, offset))}}
      [] pc = "notify" ->
           IF DrainWaits THEN {running_commands[queue[1]]} ELSE {}
      [] OTHER -> {}
TaskSuspended == AwaitedChannels # {}

\* C23: a result channel never holds more than ChannelCapacity results
\* its receiver has not taken; while the task waits to send to a full
\* channel whose receiver is there, it does nothing else: no result is
\* delivered to any channel, the table, the read buffer and the parse
\* position stay as they are, no command is taken from the queue, nothing
\* is written, and an EOF that is ready is not read; the wait ends only
\* when the receiver of an awaited channel takes a result or is dropped.
C23_FullChannelSuspends ==
    /\ [](\A c \in Chans : Undelivered(c) <= ChannelCapacity)
    /\ [](\A c \in AwaitedChannels :
              Undelivered(c) = ChannelCapacity /\ ~rx_dropped[c])
    /\ [][TaskSuspended =>
              /\ UNCHANGED <<pc, running, packet_buf, offset, held, queue,
                             running_commands, sent, tx_log, err, ret, snap,
                             serr, done_chans>>
              /\ Len(command_queue') >= Len(command_queue)
              /\ Len(wire') >= Len(wire)]_vars
    /\ [][TaskSuspended /\ ~TaskSuspended' =>
              \E c \in AwaitedChannels :
                  taken'[c] > taken[c] \/ rx_dropped'[c]]_vars
\* EOF was read with two tags in the table; the drain yielded the tag
\* whose channel is full again after its receiver took one result, and
\* waits there: the other tag, whose channel has room, has not got the
\* error
C23_Witness ==
    /\ pc = "notify" /\ ret = "read" /\ DrainWaits
    /\ DOMAIN running_commands = {1, 2}
    /\ AwaitedChannels = {running_commands[1]}
    /\ Len(sent[running_commands[1]]) = ChannelCapacity + 1
    /\ taken[running_commands[1]] = 1
    /\ CanSend(running_commands[2]) /\ ~rx_dropped[running_commands[2]]
    /\ sent[running_commands[2]] = snap.sent[running_commands[2]]

\* C24: the command queue never holds more than QueueCapacity commands;
\* a call that comes to the send while the queue is full and the task
\* lives waits, and no command is added to the queue before the task has
\* taken one; the queue changes only by a command a call puts at its end,
\* by the task taking the command at its front, or by the end of the
\* task; and the command the task writes is the one it took last, so the
\* commands are written in the order in which the queue accepted them.
C24_QueueBounded ==
    /\ [](Len(command_queue) <= QueueCapacity)
    /\ [][Len(command_queue) = QueueCapacity /\ ~QueueClosed' =>
              /\ command_queue' \in {command_queue, Tail(command_queue)}
              /\ Len(created') < Len(created) =>
                     /\ Len(waiters') = Len(waiters) + 1
                     /\ ~Last(waiters').ready]_vars
    /\ [][command_queue' # command_queue =>
              \/ /\ Len(created') < Len(created) \/ Len(waiters') < Len(waiters)
                 /\ Len(command_queue') = Len(command_queue) + 1
                 /\ SubSeq(command_queue', 1, Len(command_queue)) = command_queue
                 /\ UNCHANGED <<tx_log, held>>
              \/ /\ command_queue' = Tail(command_queue)
                 /\ held = <<>> /\ held' = <<Head(command_queue)>>
                 /\ UNCHANGED <<tx_log, created>>
              \/ /\ QueueClosed' /\ command_queue' = <<>>
                 /\ UNCHANGED <<created, waiters>>]_vars
    /\ [][Len(CommandWrites') > Len(CommandWrites) =>
              /\ held # <<>> /\ Last(CommandWrites').tag = held[1].tag
              /\ UNCHANGED command_queue]_vars
\* the queue was full when the seventeenth call came to the send and that
\* call waited; the task took the first command and wrote it, the call
\* that waited put its command into the queue, and the next call waits
C24_Witness ==
    /\ Len(command_queue) = QueueCapacity
    /\ Len(CommandWrites) = 1
    /\ Last(command_queue).tag = QueueCapacity + 1
    /\ Len(waiters) = 1 /\ ~waiters[1].ready

\* the sentence at the parse position is of category cat
SentenceAtParse(cat) ==
    \E r \in {next_sentence(Skip(packet_buf, offset))} :
        /\ r.kind = "Ok" /\ Len(r.words) >= 1
        /\ r.words[1] = WCategory(cat)

\* C25: the step that processes a Fatal sentence puts nothing on any
\* channel, leaves the tag table as it is, keeps the loop running and in
\* the parse loop, and starts no notification of the outstanding commands;
\* the sentence is consumed.
C25_FatalOnlyLogged ==
    [][SentenceStep /\ SentenceAtParse("Fatal") =>
           /\ UNCHANGED <<sent, running_commands, running, pc, err, ret, snap,
                          serr, done_chans, tx_log, packet_buf>>
           /\ offset' > offset]_vars
C25_Witness ==
    /\ pc = "parse" /\ running
    /\ offset = Len(S_fatal) /\ SubSeq(packet_buf, 1, offset) = S_fatal
    /\ DOMAIN running_commands = {1}
    /\ sent[1] = <<>> /\ ~snap.active

\* C26: the login command is written with tag 0; the tag counter always
\* stands at the number of allocations made so far modulo TagModulus, so
\* that the n-th allocation gets tag (n - 1) % TagModulus and any
\* TagModulus consecutive allocations get different tags; every
\* send_command call gets the counter's value and advances it by one, in
\* one step and whatever tags the table holds, before its command is
\* queued.
C26_TagSequence ==
    /\ [](/\ next_tag = nalloc % TagModulus
          /\ \A i \in 1..Len(tx_log) :
                 tx_log[i].op = "login" => tx_log[i].tag = 0)
    /\ [][nalloc' # nalloc =>
              /\ nalloc' = nalloc + 1
              /\ next_tag' = (next_tag + 1) % TagModulus
              /\ UNCHANGED <<running_commands, command_queue>>]_vars
    /\ [][ncmd' # ncmd =>
              /\ ncmd' = ncmd + 1
              /\ nalloc' = nalloc + 1
              /\ created' = Append(created, [tag |-> next_tag, chan |-> ncmd'])
              /\ call_tag'[ncmd'] = next_tag]_vars
\* the first command got tag 1 and is in the table; TagModulus - 1 calls
\* later the counter has wrapped and the second command got tag 1 too
C26_Witness ==
    /\ nalloc = TagModulus + 2 /\ ncmd = 2
    /\ command_queue # <<>> /\ Last(command_queue).tag = 1
    /\ 1 \in DOMAIN running_commands
    /\ next_tag = 2

\* what the receiver of channel c has got from its stream so far
Yielded(c) == SubSeq(sent[c], 1, taken[c])
\* the stream of channel c has ended: no sender is left and the receiver
\* has taken everything that was sent
StreamEnded(c) == Closed(c) /\ taken[c] = Len(sent[c])

\* C27: the step that processes the Done of a command puts nothing on its
\* channel and leaves the channel without a sender; from then on nothing
\* is added to what was delivered before the Done, and the receiver takes
\* those results one by one in the order of delivery until the stream
\* ends.
C27_StreamEndsAfterDone ==
    /\ [](\A c \in done_chans : Closed(c))
    /\ [][\A c \in done_chans' :
              /\ sent'[c] = sent[c]
              /\ taken'[c] \in {taken[c], taken[c] + 1}
              /\ taken'[c] <= Len(sent[c])
              /\ Yielded(c)' = SubSeq(sent[c], 1, taken'[c])
              /\ StreamEnded(c) /\ c \in done_chans =>
                     StreamEnded(c)' /\ taken'[c] = taken[c]]_vars
C27_Witness ==
    /\ 1 \in done_chans /\ StreamEnded(1) /\ ~rx_dropped[1]
    /\ Len(Yielded(1)) = 3
    /\ \A i \in 1..3 : Yielded(1)[i].kind # "Error"
    /\ Yielded(1)[3].kind = "Trap"

\* the channels of the commands the queue accepted
Accepted == Returned
\* the tag of the command of channel c
TagOf(c) == call_tag[c]
\* the task ended after a drain of the table begun by EOF, by a read error
\* or by a failed write
ExitedBy(from) == pc = "exited" /\ snap.active /\ snap.from = from

\* C28: once the task has ended through EOF, a read error or a failed
\* write, no sender is left for the channel of any command the queue
\* accepted; a command that was in the table when the drain began has got
\* exactly one result since, the error of the exit (or none, its receiver
\* being gone); every other command has got nothing since, and a command
\* that was never written, or whose write failed, has got no result at
\* all.
C28_ExitClosesAll ==
    (ExitedBy("read") \/ ExitedBy("write")) =>
        /\ snap.error \in {E_ConnectionClosed, E_Io}
        /\ \A c \in Accepted :
             /\ Closed(c)
             /\ c \in Channels(snap.table) =>
                    \/ sent[c] = Append(snap.sent[c], process_error(snap.error))
                    \/ rx_dropped[c] /\ sent[c] = snap.sent[c]
             /\ c \notin Channels(snap.table) => sent[c] = snap.sent[c]
             /\ TagOf(c) \notin WrittenTags =>
                    sent[c] = <<>> /\ c \notin Channels(snap.table)
\* the task ended by the failed write of the third command, with two
\* commands in the table, after a drain that waited on the full channel
\* of the first
C28_Witness ==
    /\ ExitedBy("write") /\ Accepted = {1, 2, 3}
    /\ Channels(snap.table) = {1, 2}
    /\ Len(snap.sent[1]) = ChannelCapacity /\ taken[1] = 1
    /\ \A c \in {1, 2} :
         sent[c] = Append(snap.sent[c], process_error(E_Io)) /\ ~rx_dropped[c]
    /\ FailedTags = {TagOf(3)}
    /\ sent[3] = <<>> /\ ~rx_dropped[3]

\* process_sentence returns an error for the sentence at the parse position
RefusedAtParse ==
    \E r \in {next_sentence(Skip(packet_buf, offset))} :
        /\ r.kind = "Ok"
        /\ \E o \in {process_sentence(r.words, running_commands, rx_dropped)} :
               o.err # "none"
\* the sentence at the parse position is a result for a tag of the table
\* whose receiver is there
RoutedAtParse ==
    \E r \in {next_sentence(Skip(packet_buf, offset))} :
        /\ r.kind = "Ok"
        /\ \E o \in {process_sentence(r.words, running_commands, rx_dropped)} :
               o.err = "none" /\ o.send.some

\* C29: the step in which process_sentence returns an error only clears
\* `running` (and consumes the sentence): nothing is sent, the table stays,
\* the task stays in the parse loop; afterwards the sentences left in the
\* buffer are still processed, a result among them is still put on its
\* tag's channel; the task never goes back to the select, writes no
\* command, and when it has ended no channel has got an error result
\* since the refused sentence and no sender is left.
C29_RefusedSentenceOnlyStops ==
    /\ [][SentenceStep /\ RefusedAtParse =>
              /\ running' = FALSE
              /\ UNCHANGED <<pc, sent, running_commands, packet_buf, tx_log,
                             command_queue, err, ret, snap>>]_vars
    /\ [][SentenceStep /\ serr.active /\ RoutedAtParse =>
              \E c \in Channels(running_commands) :
                  /\ Len(sent'[c]) = Len(sent[c]) + 1
                  /\ SubSeq(sent'[c], 1, Len(sent[c])) = sent[c]]_vars
    /\ [](serr.active =>
              /\ ~running
              /\ pc \in {"parse", "notify", "shutdown", "exited", "panicked"})
    /\ [][serr.active =>
              /\ Len(CommandWrites') = Len(CommandWrites)
              /\ Len(command_queue') >= Len(command_queue) \/ pc' = "exited"]_vars
    /\ [](serr.active /\ pc = "exited" =>
              /\ ~snap.active
              /\ \A c \in Accepted :
                   /\ Closed(c)
                   /\ \A i \in (Len(serr.sent[c]) + 1)..Len(sent[c]) :
                          sent[c][i].kind # "Error")
C29_Witness ==
    /\ serr.active /\ serr.error = E_Protocol("UnknownTag")
    /\ pc = "exited"
    /\ Channels(serr.table) = {1}
    /\ serr.sent[1] = <<>> /\ Len(sent[1]) = 1 /\ sent[1][1].kind = "Sentence"

\* what process_sentence returns for the sentence at the parse position
ErrorAtParse ==
    CHOOSE e \in {process_sentence(r.words, running_commands, rx_dropped).err :
                    r \in {next_sentence(Skip(packet_buf, offset))}} : TRUE
\* the words after the category are tags and attributes
PlainWords(words) ==
    \A i \in 2..Len(words) : words[i].type \in {"Tag", "Attribute"}

\* C30: the step that processes a Trap sentence with an attribute other
\* than =category=<value> and =message (a =category without a value is
\* one) puts nothing on any channel, leaves the tag table as it is, with
\* the trap's tag in it if it was, and clears `running`; process_sentence
\* returns the invalid-attribute error for it when the other words of the
\* sentence are tags and attributes.
C30_TrapOtherAttribute ==
    [][\A r \in {next_sentence(Skip(packet_buf, offset))} :
        (/\ SentenceStep /\ r.kind = "Ok"
         /\ Len(r.words) >= 1 /\ r.words[1] = WCategory("Trap")
         /\ ~OnlyTrapAttributes(r.words)) =>
            /\ sent' = sent
            /\ running_commands' = running_commands
            /\ ~running' /\ pc' = pc
            /\ snap' = snap /\ tx_log' = tx_log
            /\ ErrorAtParse # "none"
            /\ serr'.active
            /\ PlainWords(r.words) =>
                   /\ ErrorAtParse = "InvalidAttributeInTrap"
                   /\ ~serr.active =>
                          serr'.error = E_Protocol("InvalidAttributeInTrap")]_vars
C30_Witness ==
    /\ serr.active /\ serr.error = E_Protocol("InvalidAttributeInTrap")
    /\ serr.table = running_commands /\ DOMAIN running_commands = {1}
    /\ sent[1] = serr.sent[1] /\ ~rx_dropped[1]
    /\ pc = "parse" /\ ~running
    /\ SubSeq(packet_buf, 1, offset) = S_trap_flag_category(1)

\* the task took the closed arm of the select and has ended
ClosedAndExited == snap.active /\ snap.from = "closed" /\ pc = "exited"

\* C31 as stated: when the task has ended through the closed arm, every
\* command the queue accepted was written to the socket and a cancel
\* command was written for it.
C31_AllSentAndCancelled ==
    ClosedAndExited =>
        \A c \in Accepted :
            TagOf(c) \in WrittenTags /\ TagOf(c) \in CancelledTags

\* C31: when the task takes the closed arm, the queue is empty and every
\* command it accepted has been written, without a failure, before the
\* first cancel command; the cancel commands are written for the tags
\* that are in the table at that point, all of them whether or not the
\* writes succeed, and the shutdown attempt follows; a command that is no
\* longer in the table then, finished by its Done or dropped with its
\* receiver, was written and is not cancelled.
C31_WrittenThenCancelled ==
    (snap.active /\ snap.from = "closed") =>
        /\ ~handle_alive /\ command_queue = <<>>
        /\ FailedTags = {}
        /\ \A c \in Accepted : TagOf(c) \in WrittenTags
        /\ DOMAIN snap.table \subseteq WrittenTags
        /\ \A i, j \in 1..Len(tx_log) :
               tx_log[i].op = "cancel" /\ tx_log[j].op = "command" => j < i
        /\ CancelledTags \subseteq DOMAIN snap.table
        /\ pc # "cancel" => CancelledTags = DOMAIN snap.table
        /\ pc = "exited" => Last(tx_log).op = "shutdown"
        /\ \A c \in Accepted :
               TagOf(c) \notin DOMAIN snap.table =>
                   c \in done_chans \/ rx_dropped[c]
C31_Witness ==
    /\ ClosedAndExited
    /\ Accepted = {1, 2} /\ DOMAIN snap.table = {2}
    /\ 1 \in done_chans
    /\ Len(Cancels) = 1 /\ Cancels[1].tag = 2 /\ ~Cancels[1].ok
    /\ Last(tx_log).op = "shutdown"

\* the protocol errors among the results put on channel c since the
\* sentence was refused
ProtocolErrorsSince(c) ==
    {i \in (Len(serr.sent[c]) + 1)..Len(sent[c]) :
        sent[c][i].kind = "Error" /\ sent[c][i].error.class = "Protocol"}

\* C8: when processing a received sentence ends with a protocol error,
\* every tag in the table at that moment, whose receiver is there, has
\* exactly one protocol-error result on its channel by the time the loop
\* is left, and the table is drained.
C8_SentenceErrorBroadcast ==
    (serr.active /\ pc = "shutdown") =>
        /\ running_commands = EmptyTable
        /\ \A c \in Channels(serr.table) :
               ~rx_dropped[c] => Cardinality(ProtocolErrorsSince(c)) = 1

(***************************************************************************)
(* The length prefix on its own: write_len applied to a drawn length,      *)
(* then read_length applied to the bytes it wrote.                         *)
(***************************************************************************)
\* the halves that make the ends of the size classes, and the lengths
\* built from them
LenHalvesHi == {0, 31, 32, 4095, 4096, 65535}
LenHalvesLo == {0, 127, 128, 16383, 16384, 65535}
LenInputs   == {<<hi, lo>> : hi \in LenHalvesHi, lo \in LenHalvesLo}

InitLen == Off /\ fn_pc = "len" /\ fn_in \in LenInputs /\ fn_out = <<>>

\* command.rs:265-294 on an empty buffer
LenEncode ==
    /\ fn_pc = "len"
    /\ fn_out' = <<write_len(<<>>, fn_in)>>
    /\ fn_pc' = "encoded"
    /\ UNCHANGED <<fn_in, avars>>

\* word.rs:146-183 on the bytes written
LenDecode ==
    /\ fn_pc = "encoded"
    /\ fn_out' = Append(fn_out, read_length(fn_out[1]))
    /\ fn_pc' = "decoded"
    /\ UNCHANGED <<fn_in, avars>>

NextLen == LenEncode \/ LenDecode
SpecLen == InitLen /\ [][NextLen]_vars

\* the lengths at the ends of the size classes and the prefix of each:
\* 0, 0x7F, 0x80, 0x3FFF, 0x4000, 0x1FFFFF, 0x200000, 0xFFFFFFF, 0x10000000
C10_Table ==
    {<< <<0, 0>>,        <<0>> >>,
     << <<0, 127>>,      <<127>> >>,
     << <<0, 128>>,      <<128, 128>> >>,
     << <<0, 16383>>,    <<191, 255>> >>,
     << <<0, 16384>>,    <<192, 64, 0>> >>,
     << <<31, 65535>>,   <<223, 255, 255>> >>,
     << <<32, 0>>,       <<224, 32, 0, 0>> >>,
     << <<4095, 65535>>, <<239, 255, 255, 255>> >>,
     << <<4096, 0>>,     <<240, 16, 0, 0, 0>> >>}

\* C10: for each of the nine lengths at the ends of the size classes,
\* write_len emits the 1, 1, 2, 2, 3, 3, 4, 4, 5 bytes of the size-class
\* table (0x80 -> 80 80, 0x4000 -> C0 40 00, 0x10000000 -> F0 10 00 00 00),
\* and read_length on those bytes returns the length and the number of
\* bytes emitted.
C10_RoundTrip ==
    \A e \in C10_Table :
        fn_in = e[1] =>
            /\ fn_pc \in {"encoded", "decoded"} => fn_out[1] = e[2]
            /\ fn_pc = "decoded" => fn_out[2] = LenOk(e[1], Len(e[2]))

\* the five-byte prefix of 0x10000000 was written and read back
C10_Witness ==
    /\ fn_pc = "decoded"
    /\ fn_in = <<4096, 0>>
    /\ fn_out[1] = <<240, 16, 0, 0, 0>>
    /\ fn_out[2].kind = "Ok" /\ fn_out[2].inc = 5

(***************************************************************************)
(* The sentence parser on its own: next_sentence applied to the first      *)
(* bytes of a well-formed sentence, then to all of it.                     *)
(***************************************************************************)
LongLen == 122      \* bytes of the long attribute value
LongValue == [i \in 1..LongLen |-> 97]
\* a reply whose last word is =name=aaa..., 128 bytes and more: its length
\* prefix has two bytes
S_long == Encode(<<T_re, T_tag(1), T_attr(B_name, LongValue)>>)

SplitSentences == {S_done(1), S_reply(1), S_trap(1), S_long}
SplitInputs ==
    UNION {{<<bytes, cut>> : cut \in 1..(Len(bytes) - 1)} :
           bytes \in SplitSentences}

InitSplit == Off /\ fn_pc = "cut" /\ fn_in \in SplitInputs /\ fn_out = <<>>

\* next_sentence on the first fn_in[2] bytes of the sentence
SplitPrefix ==
    /\ fn_pc = "cut"
    /\ fn_out' = <<next_sentence(SubSeq(fn_in[1], 1, fn_in[2]))>>
    /\ fn_pc' = IF fn_out'[1].kind = "Panic" THEN "panicked" ELSE "prefix"
    /\ UNCHANGED <<fn_in, avars>>

\* next_sentence again, once the remaining bytes are in the buffer
SplitFull ==
    /\ fn_pc = "prefix"
    /\ fn_out' = Append(fn_out, next_sentence(fn_in[1]))
    /\ fn_pc' = "full"
    /\ UNCHANGED <<fn_in, avars>>

NextSplit == SplitPrefix \/ SplitFull
SpecSplit == InitSplit /\ [][NextSplit]_vars

\* the words of the sentences of SplitSentences
C9_Words(bytes) ==
    CASE bytes = S_done(1) -> <<WCategory("Done"), WTag(1)>>
      [] bytes = S_reply(1) ->
            <<WCategory("Reply"), WTag(1), WAttribute(B_name, Some(B_ether1)),
              WAttribute(B_re, None)>>
      [] bytes = S_trap(1) ->
            <<WCategory("Trap"), WTag(1), WAttribute(B_category, Some(<<50>>)),
              WAttribute(B_message, Some(B_name))>>
      [] bytes = S_long ->
            <<WCategory("Reply"), WTag(1), WAttribute(B_name, Some(LongValue))>>

\* C9: for a well-formed sentence cut anywhere strictly inside it,
\* next_sentence on the first part returns Incomplete, never another error
\* and never a crash, and next_sentence on all the bytes returns the
\* sentence's words and its length, wherever the cut was.
C9_SplitIncomplete ==
    /\ fn_pc # "panicked"
    /\ fn_pc \in {"prefix", "full"} => fn_out[1] = SentErr("Incomplete")
    /\ fn_pc = "full" =>
           fn_out[2] = SentOk(C9_Words(fn_in[1]), Len(fn_in[1]))

\* what does hold: the crash is the only departure, and it happens exactly
\* when the cut falls between the two bytes of the long word's length
\* prefix, the one prefix of more than a byte in these sentences
C9_OnlyCrashInPrefix ==
    /\ fn_pc = "panicked" <=>
           /\ fn_pc # "cut"
           /\ fn_in[1] = S_long
           /\ fn_in[2] = Len(Encode(<<T_re, T_tag(1)>>))
    /\ fn_pc \in {"prefix", "full"} => fn_out[1] = SentErr("Incomplete")
    /\ fn_pc = "full" =>
           fn_out[2] = SentOk(C9_Words(fn_in[1]), Len(fn_in[1]))

(***************************************************************************)
(* The command builder on its own: a command is built by the calls a       *)
(* caller makes on CommandBuilder, then its bytes are given to             *)
(* next_sentence, which is what the peer's parser of the same protocol     *)
(* would see.                                                              *)
(***************************************************************************)
\* a call on the builder, as the closure of send_command makes them
\* (device.rs:50)
Call(op, key, value) ==
    [op |-> op, key |-> key, value |-> value, operations |-> <<>>]
OperationsCall(operations) ==
    [op |-> "query_operations", key |-> <<>>, value |-> <<>>,
     operations |-> operations]
ApplyCall(builder, call) ==
    CASE call.op = "attribute" -> attribute(builder, call.key, call.value)
      [] call.op = "flag_attribute" -> flag_attribute(builder, call.key)
      [] call.op = "query_is_present" -> query_is_present(builder, call.key)
      [] call.op = "query_not_present" ->
             query_not_present(builder, call.key)
      [] call.op = "query_equal" -> query_equal(builder, call.key, call.value)
      [] call.op = "query_gt" -> query_gt(builder, call.key, call.value)
      [] call.op = "query_lt" -> query_lt(builder, call.key, call.value)
      [] call.op = "query_operations" ->
             query_operations(builder, call.operations)

RECURSIVE ApplyCalls(_, _)
ApplyCalls(builder, calls) ==
    IF calls = <<>> THEN builder
    ELSE ApplyCalls(ApplyCall(builder, Head(calls)), Tail(calls))

LongPath == [i \in 1..(LongLen + 8) |-> 47]
BuildTags == {0, 1, 9, 10, 1234, 65535}
BuildPaths == {B_login, B_cancel, B_name, <<>>, LongPath}
BuildCalls ==
    {Call("attribute", B_name, B_ether1), Call("flag_attribute", B_re, <<>>),
     Call("query_is_present", B_name, <<>>),
     Call("query_not_present", B_name, <<>>),
     Call("query_equal", B_name, B_ether1),
     Call("query_gt", B_name, B_ether1), Call("query_lt", B_name, B_ether1),
     OperationsCall(<<>>), OperationsCall(<<"Not", "And", "Or", "Dot">>)}
BuildCallSeqs ==
    {<<>>} \cup {<<c>> : c \in BuildCalls}
           \cup {<<c, d>> : c \in BuildCalls, d \in BuildCalls}
BuildInput(op, tag, path, calls, username, password) ==
    [op |-> op, tag |-> tag, path |-> path, calls |-> calls,
     username |-> username, password |-> password]
BuildInputs ==
    {BuildInput("cancel", t, <<>>, <<>>, <<>>, None) : t \in BuildTags}
    \cup {BuildInput("login", t, <<>>, <<>>, u, pw) :
              t \in {0, 1}, u \in {B_name, B_ether1},
              pw \in {None, Some(B_name), Some(<<>>)}}
    \cup {BuildInput("command", t, path, calls, <<>>, None) :
              t \in BuildTags, path \in BuildPaths, calls \in BuildCallSeqs}

InitBuild == Off /\ fn_pc = "build" /\ fn_in \in BuildInputs /\ fn_out = <<>>

\* command.rs:78-82
BuildCancel ==
    /\ fn_pc = "build" /\ fn_in.op = "cancel"
    /\ fn_out' = <<cancel(fn_in.tag)>>
    /\ fn_pc' = "built"
    /\ UNCHANGED <<fn_in, avars>>

\* command.rs:48-60
BuildLogin ==
    /\ fn_pc = "build" /\ fn_in.op = "login"
    /\ fn_out' = <<login(fn_in.tag, fn_in.username, fn_in.password)>>
    /\ fn_pc' = "built"
    /\ UNCHANGED <<fn_in, avars>>

\* command.rs:22-29, the calls of the caller, command.rs:228-236
BuildCommand ==
    /\ fn_pc = "build" /\ fn_in.op = "command"
    /\ fn_out' = <<build(ApplyCalls(CommandBuilder_new(fn_in.tag, fn_in.path),
                                    fn_in.calls))>>
    /\ fn_pc' = "built"
    /\ UNCHANGED <<fn_in, avars>>

\* word.rs:185-200 on the bytes of the command
ParseBuilt ==
    /\ fn_pc = "built"
    /\ fn_out' = Append(fn_out, next_sentence(fn_out[1].data))
    /\ fn_pc' = "parsed"
    /\ UNCHANGED <<fn_in, avars>>

NextBuild == BuildCancel \/ BuildLogin \/ BuildCommand \/ ParseBuilt
SpecBuild == InitBuild /\ [][NextBuild]_vars

\* the bytes of a sentence made of the words ws, each below 16384 bytes:
\* the length of a word in one byte below 128, else in two bytes with the
\* top bit set, then the word; a zero byte at the end
RECURSIVE Framed(_)
Framed(ws) ==
    IF ws = <<>> THEN <<0>>
    ELSE (IF Len(Head(ws)) < 128 THEN <<Len(Head(ws))>>
          ELSE <<128 + Len(Head(ws)) \div 256, Len(Head(ws)) % 256>>)
         \o Head(ws) \o Framed(Tail(ws))

B_tag_key == <<116, 97, 103>>                            \* "tag"

\* C15: the command of CommandBuilder::cancel(t) starts with the path word
\* /cancel and ends with an attribute word that the word parser classifies
\* as Attribute with key "tag" and the decimal digits of t as its value,
\* followed by the zero-length terminator.
C15_CancelNamesTag ==
    (fn_in.op = "cancel" /\ fn_pc = "parsed") =>
        /\ fn_out[2].kind = "Ok"
        /\ fn_out[2].inc = Len(fn_out[1].data)
        /\ Len(fn_out[2].words) >= 2
        /\ fn_out[2].words[1] = WMessage(B_cancel)
        /\ Last(fn_out[2].words) =
               WAttribute(B_tag_key, Some(to_string(fn_in.tag)))

\* what the cancel command does carry: the words /cancel, .tag=<t> and
\* =tag==<t>, whose value as the parser splits it is "=" and the digits
C15_CancelAsBuilt ==
    (fn_in.op = "cancel" /\ fn_pc = "parsed") =>
        /\ fn_out[1].data =
               Framed(<<B_cancel, B_tag_prefix \o to_string(fn_in.tag),
                        B_eq \o B_tag_key \o B_eq \o B_eq
                             \o to_string(fn_in.tag)>>)
        /\ fn_out[2] =
               SentOk(<<WMessage(B_cancel), WTag(fn_in.tag),
                        WAttribute(B_tag_key,
                                   Some(B_eq \o to_string(fn_in.tag)))>>,
                      Len(fn_out[1].data))

\* the words of a login command
LoginWords(tag, username, password) ==
    <<B_login, B_tag_prefix \o to_string(tag),
      B_eq \o B_name \o B_eq \o username,
      B_eq \o B_password \o B_eq \o
          (IF password.some THEN password.val ELSE <<>>)>>

\* C16: the login command has the path word /login, then the tag word,
\* then =name=<username>, then the password attribute, which is never left
\* out: the word =password=<password> with a password, the word
\* =password= with none; the parser reads the words back as such.
C16_LoginPassword ==
    fn_in.op = "login" =>
        /\ fn_pc \in {"built", "parsed"} =>
               /\ fn_out[1].tag = fn_in.tag
               /\ fn_out[1].data =
                      Framed(LoginWords(fn_in.tag, fn_in.username,
                                        fn_in.password))
        /\ fn_pc = "parsed" =>
               fn_out[2] =
                   SentOk(<<WMessage(B_login), WTag(fn_in.tag),
                            WAttribute(B_name, Some(fn_in.username)),
                            WAttribute(B_password,
                                       Some(IF fn_in.password.some
                                            THEN fn_in.password.val
                                            ELSE <<>>))>>,
                          Len(fn_out[1].data))

\* a login without a password was built and parsed: its last word is
\* =password=
C16_Witness ==
    /\ fn_pc = "parsed" /\ fn_in.op = "login" /\ ~fn_in.password.some
    /\ fn_in.username = B_name
    /\ Len(fn_out[2].words) = 4
    /\ fn_out[2].words[4].key = B_password
    /\ SubSeq(fn_out[1].data, Len(fn_out[1].data) - 11,
              Len(fn_out[1].data)) = <<10>> \o B_eq \o B_password \o B_eq \o <<0>>

\* the word a call of the builder writes
CallWord(call) ==
    CASE call.op = "attribute" -> B_eq \o call.key \o B_eq \o call.value
      [] call.op = "flag_attribute" -> B_eq \o call.key \o B_eq
      [] call.op = "query_is_present" -> <<63>> \o call.key
      [] call.op = "query_not_present" -> <<63, 45>> \o call.key
      [] call.op = "query_equal" -> <<63>> \o call.key \o B_eq \o call.value
      [] call.op = "query_gt" ->
             <<63, 62>> \o call.key \o B_eq \o call.value
      [] call.op = "query_lt" ->
             <<63, 60>> \o call.key \o B_eq \o call.value
      [] call.op = "query_operations" ->
             <<63, 35>> \o [i \in 1..Len(call.operations) |->
                               CASE call.operations[i] = "Not" -> 33
                                 [] call.operations[i] = "And" -> 38
                                 [] call.operations[i] = "Or"  -> 124
                                 [] call.operations[i] = "Dot" -> 46]
CommandWords(in) ==
    <<in.path, B_tag_prefix \o to_string(in.tag)>>
        \o [i \in 1..Len(in.calls) |-> CallWord(in.calls[i])]
\* the path is read as a Message word
PlainPath(path) ==
    /\ ~StartsWith(path, B_bang) /\ ~StartsWith(path, B_eq)
    /\ ~StartsWith(path, B_tag_prefix)

\* C17: for every tag and every path that does not start with '!', '=' or
\* '.tag=', the built command is the path word, the word .tag=<tag>, the
\* words of the attribute and query calls in call order and one zero
\* byte; next_sentence on it gives one sentence that uses up all the
\* bytes, with Message(path) first and Tag(tag), the tag of the Command,
\* second.
C17_BuiltCommand ==
    (fn_in.op = "command" /\ PlainPath(fn_in.path)) =>
        /\ fn_pc \in {"built", "parsed"} =>
               /\ fn_out[1].tag = fn_in.tag
               /\ fn_out[1].data = Framed(CommandWords(fn_in))
        /\ fn_pc = "parsed" =>
               /\ fn_out[2].kind = "Ok"
               /\ fn_out[2].inc = Len(fn_out[1].data)
               /\ Len(fn_out[2].words) = 2 + Len(fn_in.calls)
               /\ fn_out[2].words[1] = WMessage(fn_in.path)
               /\ fn_out[2].words[2] = WTag(fn_in.tag)

\* what does hold: the same for every path that is not empty
C17_NonEmptyPath ==
    (fn_in.op = "command" /\ PlainPath(fn_in.path) /\ fn_in.path # <<>>) =>
        /\ fn_pc \in {"built", "parsed"} =>
               /\ fn_out[1].tag = fn_in.tag
               /\ fn_out[1].data = Framed(CommandWords(fn_in))
        /\ fn_pc = "parsed" =>
               /\ fn_out[2].kind = "Ok"
               /\ fn_out[2].inc = Len(fn_out[1].data)
               /\ Len(fn_out[2].words) = 2 + Len(fn_in.calls)
               /\ fn_out[2].words[1] = WMessage(fn_in.path)
               /\ fn_out[2].words[2] = WTag(fn_in.tag)

====
